---- MODULE Spec2Model ----
(***************************************************************************)
(* State-machine model of the "auto" CRUD service: AutoWriteService        *)
(* (create, addFile, update, delete), AutoService (findById, find, count),  *)
(* WhereBuilder, the DTO mappings of the REST controller and the GraphQL   *)
(* resolver, and the tables auto / auto_file with their constraints.       *)
(*                                                                         *)
(* Every await on the store is one atomic step; local computation between  *)
(* two store accesses belongs to the step of the access that follows it.   *)
(* A request slot goes idle -> (in flight) -> done -> idle.                *)
(***************************************************************************)
EXTENDS Integers, Sequences, FiniteSets, TLC

\* ------------------------------------------------------------------ bounds
NumReqs == 2
MaxAutos == 2
MaxVersion == 2
\* the pages of a search: numbers 0..MaxPageNumber, sizes 1..MaxPageSize
MaxPageNumber == 1
MaxPageSize == 2

\* first value of the identity column auto.id
FirstId == 1000

Reqs == 1..NumReqs
\* the ids the identity column can assign within the bound
Ids == FirstId..(FirstId + MaxAutos - 1)

Fgnrs == {"1-0001-6", "1-0002-6"}
\* the version a caller may put into a create record
RecordVersions == {0, 1}

\* -------------------------------------------------------- version tokens
\* A token is a sequence of characters (one-character strings).
DQ == "\""
Digits == {"0", "1", "2", "3", "4", "5", "6", "7", "8", "9"}

DigitVal(c) ==
    CASE c = "0" -> 0 [] c = "1" -> 1 [] c = "2" -> 2 [] c = "3" -> 3
      [] c = "4" -> 4 [] c = "5" -> 5 [] c = "6" -> 6 [] c = "7" -> 7
      [] c = "8" -> 8 [] c = "9" -> 9

\* The tokens a caller presents: empty, unquoted, negative, four digits,
\* characters after the closing quote, and well-formed ones.
Tokens ==
    { <<>>,
      <<"1">>,
      <<DQ, "-", "1", DQ>>,
      <<DQ, "1", "2", "3", "4", DQ>>,
      <<DQ, "1", DQ, "x">>,
      <<DQ, "0", DQ>>,
      <<DQ, "1", DQ>>,
      <<DQ, "1", "2", DQ>> }

\* the greatest number that \d{1,3} can spell
MaxTokenVersion == 999

\* the pattern with room for a fourth digit
VERSION_PATTERN_test_4digits(s) ==
    /\ Len(s) >= 3
    /\ s[1] = DQ
    /\ \E n \in 1..4 :
          /\ Len(s) >= n + 2
          /\ \A i \in 2..(n + 1) : s[i] \in Digits
          /\ s[n + 2] = DQ

\* /^"\d{1,3}"/u without an end anchor: a prefix match
VERSION_PATTERN_test(s) ==
    /\ Len(s) >= 3
    /\ s[1] = DQ
    /\ \E n \in 1..3 :
          /\ Len(s) >= n + 2
          /\ \A i \in 2..(n + 1) : s[i] \in Digits
          /\ s[n + 2] = DQ

\* String.prototype.slice(1, -1)
slice_1_m1(s) == IF Len(s) <= 2 THEN <<>> ELSE SubSeq(s, 2, Len(s) - 1)

\* length of the leading run of digits of s from position i
RECURSIVE DigitRun(_, _)
DigitRun(s, i) ==
    IF i <= Len(s) /\ s[i] \in Digits THEN 1 + DigitRun(s, i + 1) ELSE 0

\* decimal value of s[i..j]
RECURSIVE DecVal(_, _, _)
DecVal(s, i, j) ==
    IF j < i THEN 0 ELSE 10 * DecVal(s, i, j - 1) + DigitVal(s[j])

\* Number.parseInt(s, 10): optional sign, then the leading digits; NaN if none
parseInt(s) ==
    LET signed == Len(s) >= 1 /\ s[1] \in {"-", "+"}
        start == IF signed THEN 2 ELSE 1
        k == DigitRun(s, start)
        mag == DecVal(s, start, start + k - 1)
    IN  IF k = 0 THEN [nan |-> TRUE, val |-> 0]
        ELSE [nan |-> FALSE,
              val |-> IF signed /\ s[1] = "-" THEN 0 - mag ELSE mag]

\* the comparison of #validateUpdate written with <= instead of <
jsLessOrEqual(a, b) == ~a.nan /\ a.val <= b

\* a < b in JavaScript: false as soon as one side is NaN
jsLess(a, b) == ~a.nan /\ a.val < b


\* ------------------------------------------------------------------ state
VARIABLES
    auto,       \* table auto: id -> row, defined on the ids that have a row
    autoFile,   \* table auto_file: auto id -> the file rows that reference it
    nextId,     \* next value of the identity column auto.id
    mails,      \* ids for which the creation mail was handed to the MailService
    req         \* the request slots

vars == <<auto, autoFile, nextId, mails, req>>

UNDEF == "undefined"
Filenames == {"a.png"}
\* the filenames of the uploads when the claims are about the files
UploadFilenames == {"a.png", "b.png"}

Set(n) == [op |-> "set", n |-> n]
Increment(n) == [op |-> "increment", n |-> n]
Absent == [op |-> "absent", n |-> 0]

\* SQL NULL in the columns art (a string) and datum (a day, yyyymmdd)
NULL == "null"
NullDate == 0
\* SQL NULL in the column schlagwoerter, and a create record without
\* schlagwoerter: no array. The arrays are sets of tags; no array is the set
\* of the one element NULL, which no tag equals.
NullArray == {NULL}

\* a record of the table auto with its modell, or a create record: the
\* columns of d with this version (a number, or what a write does with it)
autoRecord(version, d, modell) ==
    [version |-> version, fgnr |-> d.fgnr, art |-> d.art, preis |-> d.preis,
     rabatt |-> d.rabatt, lieferbar |-> d.lieferbar, datum |-> d.datum,
     schlagwoerter |-> d.schlagwoerter, modell |-> modell]

\* an update record: the columns without the modell
autoUpdateRecord(version, d) ==
    [version |-> version, fgnr |-> d.fgnr, art |-> d.art, preis |-> d.preis,
     rabatt |-> d.rabatt, lieferbar |-> d.lieferbar, datum |-> d.datum,
     schlagwoerter |-> d.schlagwoerter]

\* the values of the columns when a request says nothing else (the price in
\* cents, the date as yyyymmdd)
DefaultAuto ==
    [fgnr |-> UNDEF, art |-> "COUPE", preis |-> 4499000, rabatt |-> 5,
     lieferbar |-> TRUE, datum |-> 20250210, schlagwoerter |-> {"SPORT"}]
DefaultModell == "BMW"

NoRec == autoRecord(Set(0), DefaultAuto, DefaultModell)
\* an HTTP response: the status, the header ETag and the body, <<>> without
Response(status, etag, body) == [status |-> status, etag |-> etag, body |-> body]
\* no response yet
NoResponse == Response(0, <<>>, <<>>)
\* a slot that is not searching
NoSearch == [given |-> FALSE, f |-> [k \in {} |-> 0]]
NoPageable == [number |-> 0, size |-> 0]
NoRow == autoRecord(0, DefaultAuto, DefaultModell)

Idle ==
    [pc |-> "idle", op |-> "none", via |-> "none", id |-> <<>>, token |-> <<>>,
     rec |-> NoRec, seen |-> 0, file |-> "", deleted |-> 0, sp |-> NoSearch,
     header |-> <<>>, accepts |-> TRUE, res |-> NoResponse,
     pageable |-> NoPageable, autos |-> <<>>, dbCalls |-> 0,
     result |-> "none", ret |-> <<>>]

\* a finished call: what was asked (op, id, token) and what came back
Done(op, id, token, dbCalls, result, ret) ==
    [Idle EXCEPT !.pc = "done", !.op = op, !.id = id, !.token = token,
                 !.dbCalls = dbCalls, !.result = result, !.ret = ret]

\* a finished create also says which record was to be stored, and who called
DoneCreate(via, rec, id, dbCalls, result) ==
    [Done("create", id, <<>>, dbCalls, result, id) EXCEPT !.via = via, !.rec = rec]

Init ==
    /\ auto = [i \in {} |-> NoRow]
    /\ autoFile = [i \in Ids |-> <<>>]
    /\ nextId = FirstId
    /\ mails = {}
    /\ req = [r \in Reqs |-> Idle]

\* ------------------------------------------------------- the store (SQL)
\* the table auto without the UNIQUE constraint on fgnr
fgnrUnique_off(tbl, id, fgnr) == TRUE

\* auto.fgnr UNIQUE: would a row `id` with this fgnr collide with another row?
fgnrUnique(tbl, id, fgnr) ==
    \A i \in DOMAIN tbl : i # id => tbl[i].fgnr # fgnr

\* prisma.auto.count({ where: { fgnr } })
autoCount(tbl, fgnr) == Cardinality({i \in DOMAIN tbl : tbl[i].fgnr = fgnr})

\* the versions of a run stay within MaxVersion updates of where they began:
\* of 0 or, for an auto stored with the last three-digit version, of that
VersionWindow(version) ==
    \/ version <= MaxVersion
    \/ version >= MaxTokenVersion /\ version <= MaxTokenVersion + MaxVersion

\* the value a write gives the column version
applyVersion(old, v) ==
    CASE v.op = "increment" -> old + v.n
      [] v.op = "set" -> v.n
      [] OTHER -> old

\* tx.auto.create({ data }): the new table, or the error of the statement
autoCreateStmt(tbl, id, data) ==
    IF data.fgnr = UNDEF
    THEN [err |-> "PrismaValidation", tbl |-> tbl]
    ELSE IF ~fgnrUnique(tbl, id, data.fgnr)
    THEN [err |-> "UniqueConstraint", tbl |-> tbl]
    ELSE [err |-> "none",
          tbl |-> (id :> autoRecord(applyVersion(0, data.version), data,
                                    data.modell)) @@ tbl]

\* an update statement that inserts the row when there is none (an upsert)
autoUpdateStmt_upsert(tbl, id, data) ==
    IF ~fgnrUnique(tbl, id, data.fgnr)
    THEN [err |-> "UniqueConstraint", tbl |-> tbl]
    ELSE [err |-> "none",
          tbl |-> (id :> autoRecord(
                             applyVersion(IF id \in DOMAIN tbl
                                          THEN tbl[id].version ELSE 0,
                                          data.version),
                             data,
                             IF id \in DOMAIN tbl
                             THEN tbl[id].modell ELSE DefaultModell)) @@ tbl]

\* tx.auto.update({ data, where: { id } })
autoUpdateStmt(tbl, id, data) ==
    IF id \notin DOMAIN tbl
    THEN [err |-> "RecordNotFound", tbl |-> tbl]
    ELSE IF ~fgnrUnique(tbl, id, data.fgnr)
    THEN [err |-> "UniqueConstraint", tbl |-> tbl]
    ELSE [err |-> "none",
          tbl |-> [tbl EXCEPT ![id] =
                      autoRecord(applyVersion(tbl[id].version, data.version),
                                 data, tbl[id].modell)]]

\* a delete statement that reports success and leaves the row
autoDeleteStmt_keepsRow(tbl, id) ==
    IF id \notin DOMAIN tbl
    THEN [err |-> "RecordNotFound", tbl |-> tbl]
    ELSE [err |-> "none", tbl |-> tbl]

\* tx.auto.delete({ where: { id } })
autoDeleteStmt(tbl, id) ==
    IF id \notin DOMAIN tbl
    THEN [err |-> "RecordNotFound", tbl |-> tbl]
    ELSE [err |-> "none", tbl |-> [i \in DOMAIN tbl \ {id} |-> tbl[i]]]

\* auto_file.auto_id REFERENCES auto ON DELETE CASCADE
cascadeFiles(files, id) == [files EXCEPT ![id] = <<>>]

\* auto_file without the UNIQUE constraint on auto_id
autoIdUnique_off(files, autoId) == TRUE

\* auto_file.auto_id UNIQUE: no file row references this auto yet
autoIdUnique(files, autoId) == Len(files[autoId]) = 0

\* tx.autoFile.deleteMany({ where: { autoId } }): the count and the new table
autoFileDeleteMany(files, autoId) ==
    [count |-> Len(files[autoId]), files |-> [files EXCEPT ![autoId] = <<>>]]

\* tx.autoFile.create({ data }): auto_id REFERENCES auto, auto_id UNIQUE
autoFileCreateStmt(tbl, files, autoId, filename) ==
    IF autoId \notin DOMAIN tbl
    THEN [err |-> "ForeignKeyConstraint", files |-> files]
    ELSE IF ~autoIdUnique(files, autoId)
    THEN [err |-> "UniqueConstraint", files |-> files]
    ELSE [err |-> "none",
          files |-> [files EXCEPT ![autoId] = Append(@, filename)]]

\* ------------------------------------------------------------ DTO mapping
\* what a client can send as the body of a create or an update
AutoDTOs ==
    {autoRecord(v, [DefaultAuto EXCEPT !.fgnr = f], DefaultModell) :
        f \in Fgnrs, v \in RecordVersions}
\* what a caller of the service can pass as create record
AutoCreates ==
    {autoRecord(Set(n), [DefaultAuto EXCEPT !.fgnr = f], DefaultModell) :
        n \in RecordVersions, f \in Fgnrs \cup {UNDEF}}
\* what a caller of the service can pass as update record
AutoUpdates ==
    {autoUpdateRecord(v, [DefaultAuto EXCEPT !.fgnr = f]) :
        v \in {Absent, Set(0)}, f \in Fgnrs}

\* art ?? null
orNull(art) == IF art = UNDEF THEN NULL ELSE art

\* the mapping with the version taken from the body of the request
autoDtoToAutoCreateInput_copiesVersion(dto) ==
    autoRecord(Set(dto.version), [dto EXCEPT !.art = orNull(@)], dto.modell)

\* AutoWriteController.#autoDtoToAutoCreateInput
autoDtoToAutoCreateInput(dto) ==
    autoRecord(Set(0), [dto EXCEPT !.art = orNull(@)], dto.modell)

\* AutoMutationResolver.#autoDtoToAutoCreate
autoDtoToAutoCreate(dto) ==
    autoRecord(Set(0), [dto EXCEPT !.art = orNull(@)], dto.modell)

\* AutoWriteController.#autoDtoToAutoUpdate: no version in the record
autoDtoToAutoUpdate(dto) ==
    autoUpdateRecord(Absent, [dto EXCEPT !.art = orNull(@)])

\* AutoMutationResolver.#autoUpdateDtoToAutoUpdate: no version in the record
autoUpdateDtoToAutoUpdate(dto) ==
    autoUpdateRecord(Absent, [dto EXCEPT !.art = orNull(@)])

\* ------------------------------------------------------------------ text
\* The strings the search looks into, as sequences of characters.
Chars(s) ==
    CASE s = "1-0001-6" -> <<"1", "-", "0", "0", "0", "1", "-", "6">>
      [] s = "1-0002-6" -> <<"1", "-", "0", "0", "0", "2", "-", "6">>
      [] s = "BMW" -> <<"B", "M", "W">>
      [] s = "Audi" -> <<"A", "u", "d", "i">>
      [] s = "SPORT" -> <<"S", "P", "O", "R", "T">>
      [] s = "KOMFORT" -> <<"K", "O", "M", "F", "O", "R", "T">>
      [] s = "COUPE" -> <<"C", "O", "U", "P", "E">>
      [] s = "LIMO" -> <<"L", "I", "M", "O">>
      [] s = "KOMBI" -> <<"K", "O", "M", "B", "I">>
      [] s = "true" -> <<"t", "r", "u", "e">>
      [] s = "TRUE" -> <<"T", "R", "U", "E">>
      [] s = "yes" -> <<"y", "e", "s">>
      [] s = "SUV" -> <<"S", "U", "V">>
      [] s = "1-" -> <<"1", "-">>
      [] s = "9" -> <<"9">>
      [] s = "5" -> <<"5">>
      [] s = "150" -> <<"1", "5", "0">>
      [] s = "abc" -> <<"a", "b", "c">>
      [] s = "bm" -> <<"b", "m">>
      [] s = "zz" -> <<"z", "z">>
      [] s = "sport" -> <<"s", "p", "o", "r", "t">>
      [] s = "  " -> <<" ", " ">>
      [] s = "2025-03-01" -> <<"2", "0", "2", "5", "-", "0", "3", "-", "0", "1">>
      [] OTHER -> <<>>

UpperLetters ==
    <<"A", "B", "C", "D", "E", "F", "G", "H", "I", "J", "K", "L", "M",
      "N", "O", "P", "Q", "R", "S", "T", "U", "V", "W", "X", "Y", "Z">>
LowerLetters ==
    <<"a", "b", "c", "d", "e", "f", "g", "h", "i", "j", "k", "l", "m",
      "n", "o", "p", "q", "r", "s", "t", "u", "v", "w", "x", "y", "z">>

\* String.prototype.toLowerCase / toUpperCase
toLowerCase(s) ==
    [i \in 1..Len(s) |->
        IF \E k \in 1..26 : UpperLetters[k] = s[i]
        THEN LowerLetters[CHOOSE k \in 1..26 : UpperLetters[k] = s[i]]
        ELSE s[i]]
toUpperCase(s) ==
    [i \in 1..Len(s) |->
        IF \E k \in 1..26 : LowerLetters[k] = s[i]
        THEN UpperLetters[CHOOSE k \in 1..26 : LowerLetters[k] = s[i]]
        ELSE s[i]]

\* String.prototype.trim
RECURSIVE trim(_)
trim(s) ==
    IF s = <<>> THEN s
    ELSE IF s[1] = " " THEN trim(Tail(s))
    ELSE IF s[Len(s)] = " " THEN trim(SubSeq(s, 1, Len(s) - 1))
    ELSE s

\* startsWith of the store, and contains with mode insensitive
startsWith(s, p) == Len(p) <= Len(s) /\ SubSeq(s, 1, Len(p)) = p
contains(s, p) ==
    \E i \in 0..(Len(s) - Len(p)) : SubSeq(s, i + 1, i + Len(p)) = p
containsInsensitive(s, p) == contains(toLowerCase(s), toLowerCase(p))

\* Number.parseFloat(s) in cents, for an optional sign, digits and an
\* optional fraction of at most two digits; NaN without any digit
parseFloat(s) ==
    LET signed == Len(s) >= 1 /\ s[1] \in {"-", "+"}
        start == IF signed THEN 2 ELSE 1
        k == DigitRun(s, start)
        dot == start + k <= Len(s) /\ s[start + k] = "."
        m == IF dot THEN DigitRun(s, start + k + 1) ELSE 0
        whole == DecVal(s, start, start + k - 1)
        frac == IF m = 0 THEN 0
                ELSE IF m = 1 THEN 10 * DigitVal(s[start + k + 1])
                ELSE DecVal(s, start + k + 1, start + k + 2)
        mag == 100 * whole + frac
    IN  IF k = 0 /\ m = 0 THEN [nan |-> TRUE, val |-> 0]
        ELSE [nan |-> FALSE,
              val |-> IF signed /\ s[1] = "-" THEN 0 - mag ELSE mag]

\* new Date(s) for a date yyyy-mm-dd: the day as the number yyyymmdd
newDate(s) == 10000 * DecVal(s, 1, 4) + 100 * DecVal(s, 6, 7) + DecVal(s, 9, 10)

\* ----------------------------------------------------------- WhereBuilder
\* A search value is a string (its characters) or, for lieferbar, a boolean;
\* a property the search parameters do not have is undefined.
Str(s) == [t |-> "string", s |-> s, b |-> FALSE]
Bool(b) == [t |-> "boolean", s |-> <<>>, b |-> b]
Undefined == [t |-> "undefined", s |-> <<>>, b |-> FALSE]

\* the names of Suchparameter
suchparameterNamen ==
    {"fgnr", "art", "preis", "rabatt", "lieferbar", "datum", "schlagwort",
     "modell"}
\* the property names of the search parameters a caller sends: those of
\* Suchparameter and one that is none
PropertyNames == suchparameterNamen \cup {"javascript"}

\* the search parameters with the properties props, a set of <<name, value>>
Suchparameter(props) ==
    [k \in PropertyNames |->
        IF \E p \in props : p[1] = k
        THEN (CHOOSE p \in props : p[1] = k)[2]
        ELSE Undefined]

\* Object.keys(suchparameter)
keys(f) == {k \in DOMAIN f : f[k].t # "undefined"}

\* one condition of a where clause
Cond(op, s, n, b) == [op |-> op, s |-> s, n |-> n, b |-> b]

\* WhereBuilder.#buildSchlagwoerter: <<>> for undefined, else <<the tag>>
buildSchlagwoerter(f) ==
    IF "schlagwort" \notin keys(f) THEN <<>>
    ELSE IF trim(f["schlagwort"].s) = <<>> THEN <<>>
    ELSE <<toUpperCase(f["schlagwort"].s)>>

\* a builder that keeps the condition of a preis or rabatt that is no number
whereKeys_keepNaN(f) ==
    ((keys(f) \ {"schlagwort"}) \cap
        {"modell", "fgnr", "art", "lieferbar", "datum", "preis", "rabatt"})
    \cup {k \in {"schlagwoerter"} : buildSchlagwoerter(f) # <<>>}

\* the columns WhereBuilder.build puts a condition on
whereKeys(f) ==
    ((keys(f) \ {"schlagwort"}) \cap
        {"modell", "fgnr", "art", "lieferbar", "datum"})
    \cup {k \in keys(f) \cap {"preis"} : ~parseFloat(f[k].s).nan}
    \cup {k \in keys(f) \cap {"rabatt"} : ~parseInt(f[k].s).nan}
    \cup {k \in {"schlagwoerter"} : buildSchlagwoerter(f) # <<>>}

\* WhereBuilder.build: the where clause, a condition for each of its columns
build(f) ==
    [k \in whereKeys(f) |->
        CASE k = "modell" -> Cond("containsInsensitive", f[k].s, 0, FALSE)
          [] k = "fgnr" -> Cond("startsWith", f[k].s, 0, FALSE)
          [] k = "preis" -> Cond("lte", <<>>, parseFloat(f[k].s).val, FALSE)
          [] k = "rabatt" -> Cond("gte", <<>>, parseInt(f[k].s).val, FALSE)
          [] k = "art" -> Cond("equals", f[k].s, 0, FALSE)
          [] k = "lieferbar" ->
                Cond("equals", <<>>, 0,
                     IF f[k].t = "string"
                     THEN toLowerCase(f[k].s) = Chars("true")
                     ELSE f[k].b)
          [] k = "datum" -> Cond("gte", <<>>, newDate(f[k].s), FALSE)
          [] k = "schlagwoerter" ->
                Cond("has", buildSchlagwoerter(f)[1], 0, FALSE)]

\* the store evaluates one condition on a row; a comparison with NULL fails
condHolds(row, k, c) ==
    CASE k = "modell" -> containsInsensitive(Chars(row.modell), c.s)
      [] k = "fgnr" -> startsWith(Chars(row.fgnr), c.s)
      [] k = "preis" -> row.preis <= c.n
      [] k = "rabatt" -> row.rabatt >= c.n
      [] k = "art" -> row.art # NULL /\ Chars(row.art) = c.s
      [] k = "lieferbar" -> row.lieferbar = c.b
      [] k = "datum" -> row.datum # NullDate /\ row.datum >= c.n
      [] k = "schlagwoerter" -> \E t \in row.schlagwoerter : Chars(t) = c.s

\* a store that takes a row when one condition holds
whereHolds_any(row, where) ==
    \E k \in DOMAIN where : condHolds(row, k, where[k])

\* the store evaluates a where clause: the conjunction of its conditions
whereHolds(row, where) ==
    \A k \in DOMAIN where : condHolds(row, k, where[k])

\* ------------------------------------------------------------ AutoService
\* an entity as the store returns it: the row with its id
autoEntity(id, row) ==
    [id |-> id, version |-> row.version, fgnr |-> row.fgnr, art |-> row.art,
     preis |-> row.preis, rabatt |-> row.rabatt, lieferbar |-> row.lieferbar,
     datum |-> row.datum, schlagwoerter |-> row.schlagwoerter,
     modell |-> row.modell]

\* the orders in which the store may return the rows of a query without
\* ORDER BY: every arrangement of the ids
Orders(tbl) ==
    {o \in [1..Cardinality(DOMAIN tbl) -> DOMAIN tbl] :
        \A i, j \in DOMAIN o : i # j => o[i] # o[j]}

\* the where clause without conditions
NoWhere == [k \in {} |-> Cond("none", <<>>, 0, FALSE)]

\* prisma.auto.findMany({ where, skip, take }): of the rows that satisfy
\* where, in the order of the store, at most take rows after the first skip
findMany(tbl, where, skip, take, order) ==
    LET hits == SelectSeq(order, LAMBDA i : whereHolds(tbl[i], where))
        last == IF skip + take < Len(hits) THEN skip + take ELSE Len(hits)
    IN  [n \in 1..(IF last > skip THEN last - skip ELSE 0) |->
            autoEntity(hits[skip + n], tbl[hits[skip + n]])]

\* AutoService.count: prisma.auto.count() of all rows
count(tbl) == Cardinality(DOMAIN tbl)

\* an entity handed on with the schlagwoerter the store returned
schlagwoerterOrEmpty_keep(schlagwoerter) == schlagwoerter

\* auto.schlagwoerter ??= []
schlagwoerterOrEmpty(schlagwoerter) ==
    IF schlagwoerter = NullArray THEN {} ELSE schlagwoerter

\* AutoService.#createSlice
createSlice(autos, totalElements) ==
    [content |->
        [n \in DOMAIN autos |->
            [autos[n] EXCEPT !.schlagwoerter = schlagwoerterOrEmpty(@)]],
     totalElements |-> totalElements]

\* a check that takes one valid name for enough
checkKeys_some(ks) == \E k \in ks : k \in suchparameterNamen

\* AutoService.#checkKeys: every key is a name of Suchparameter
checkKeys(ks) == \A k \in ks : k \in suchparameterNamen

\* AutoService.#checkEnums
checkEnums(f) ==
    \/ f["art"].t = "undefined"
    \/ f["art"].s = Chars("COUPE")
    \/ f["art"].s = Chars("LIMO")
    \/ f["art"].s = Chars("KOMBI")

\* a test of the result of findMany that never finds it empty
isEmpty_never(autos) == FALSE

\* autos.length === 0
isEmpty(autos) == Len(autos) = 0

\* what find has when findMany is back: NotFound, or the rows of the page
Found(autos, dbCalls) ==
    IF isEmpty(autos)
    THEN [result |-> "NotFound", autos |-> <<>>, dbCalls |-> dbCalls]
    ELSE [result |-> "ok", autos |-> autos, dbCalls |-> dbCalls]

\* AutoService.#findAll up to the result of findMany
findAll(tbl, pageable, order) ==
    Found(findMany(tbl, NoWhere, pageable.number * pageable.size,
                   pageable.size, order), 1)

\* find without the branch for undefined search parameters: Object.keys of
\* undefined throws a TypeError
find_findMany_noUndefined(tbl, sp, pageable, order) ==
    IF ~sp.given
    THEN [result |-> "TypeError", autos |-> <<>>, dbCalls |-> 0]
    ELSE IF keys(sp.f) = {} THEN findAll(tbl, pageable, order)
    ELSE IF ~checkKeys(keys(sp.f)) \/ ~checkEnums(sp.f)
    THEN [result |-> "NotFound", autos |-> <<>>, dbCalls |-> 0]
    ELSE Found(findMany(tbl, build(sp.f), pageable.number * pageable.size,
                        pageable.size, order), 1)

\* AutoService.find up to the result of findMany; sp.given is false for
\* undefined search parameters
find_findMany(tbl, sp, pageable, order) ==
    IF ~sp.given THEN findAll(tbl, pageable, order)
    ELSE IF keys(sp.f) = {} THEN findAll(tbl, pageable, order)
    ELSE IF ~checkKeys(keys(sp.f)) \/ ~checkEnums(sp.f)
    THEN [result |-> "NotFound", autos |-> <<>>, dbCalls |-> 0]
    ELSE Found(findMany(tbl, build(sp.f), pageable.number * pageable.size,
                        pageable.size, order), 1)

\* a lookup that takes the first row of the table, whatever the id
findById_first(tbl, id) ==
    IF DOMAIN tbl # {}
    THEN LET i == CHOOSE i \in DOMAIN tbl : \A j \in DOMAIN tbl : i <= j
         IN  [result |-> "ok",
              row |-> [autoEntity(i, tbl[i]) EXCEPT
                          !.schlagwoerter = schlagwoerterOrEmpty(@)]]
    ELSE [result |-> "NotFound", row |-> NoRow]

\* AutoService.findById: the entity of the row with this id, or NotFound
findById(tbl, id) ==
    IF id \in DOMAIN tbl
    THEN [result |-> "ok",
          row |-> [autoEntity(id, tbl[id]) EXCEPT
                      !.schlagwoerter = schlagwoerterOrEmpty(@)]]
    ELSE [result |-> "NotFound", row |-> NoRow]

\* ------------------------------------------------------- AutoWriteService
\* #validateCreate without the count of the rows with this fgnr
validateCreate_noCount(tbl, fgnr) == [result |-> "ok", dbCalls |-> 0]

\* #validateCreate: "ok", or the FgnrExistsException
validateCreate(tbl, fgnr) ==
    IF fgnr = UNDEF
    THEN [result |-> "ok", dbCalls |-> 0]
    ELSE IF autoCount(tbl, fgnr) > 0
    THEN [result |-> "FgnrExists", dbCalls |-> 1]
    ELSE [result |-> "ok", dbCalls |-> 1]

\* #validateUpdate without the comparison of the versions
validateUpdate_noCompare(tbl, id, versionStr) ==
    IF ~VERSION_PATTERN_test(versionStr)
    THEN [result |-> "VersionInvalid", seen |-> 0, dbCalls |-> 0]
    ELSE LET autoDb == findById(tbl, id)
         IN  IF autoDb.result # "ok"
             THEN [result |-> autoDb.result, seen |-> 0, dbCalls |-> 1]
             ELSE [result |-> "ok", seen |-> autoDb.row.version, dbCalls |-> 1]

\* #validateUpdate with the read of the entity moved before the pattern test
validateUpdate_readFirst(tbl, id, versionStr) ==
    LET autoDb == findById(tbl, id)
    IN  IF autoDb.result # "ok"
        THEN [result |-> autoDb.result, seen |-> 0, dbCalls |-> 1]
        ELSE IF ~VERSION_PATTERN_test(versionStr)
        THEN [result |-> "VersionInvalid", seen |-> 0, dbCalls |-> 1]
        ELSE IF jsLess(parseInt(slice_1_m1(versionStr)), autoDb.row.version)
        THEN [result |-> "VersionOutdated", seen |-> autoDb.row.version,
              dbCalls |-> 1]
        ELSE [result |-> "ok", seen |-> autoDb.row.version, dbCalls |-> 1]

\* #validateUpdate: pattern test, then parse, then findById, then compare
validateUpdate(tbl, id, versionStr) ==
    IF ~VERSION_PATTERN_test(versionStr)
    THEN [result |-> "VersionInvalid", seen |-> 0, dbCalls |-> 0]
    ELSE LET version == parseInt(slice_1_m1(versionStr))
             autoDb == findById(tbl, id)
         IN  IF autoDb.result # "ok"
             THEN [result |-> autoDb.result, seen |-> 0, dbCalls |-> 1]
             ELSE IF jsLess(version, autoDb.row.version)
             THEN [result |-> "VersionOutdated", seen |-> autoDb.row.version,
                   dbCalls |-> 1]
             ELSE [result |-> "ok", seen |-> autoDb.row.version, dbCalls |-> 1]

\* ---------------------------------------------------------------- create
\* AutoWriteService.create up to the end of #validateCreate
create(r, via, rec) ==
    /\ req[r].pc = "idle"
    /\ LET v == validateCreate(auto, rec.fgnr)
       IN  req' = [req EXCEPT ![r] =
                IF v.result # "ok"
                THEN DoneCreate(via, rec, <<>>, v.dbCalls, v.result)
                ELSE [Idle EXCEPT !.pc = "create_tx", !.op = "create",
                                  !.via = via, !.rec = rec,
                                  !.dbCalls = v.dbCalls]]
    /\ UNCHANGED <<auto, autoFile, nextId, mails>>

\* POST /rest: AutoWriteController.post
createRest(r) ==
    \E dto \in AutoDTOs : create(r, "rest", autoDtoToAutoCreateInput(dto))

\* GraphQL mutation create: AutoMutationResolver.create
createGraphQL(r) ==
    \E dto \in AutoDTOs : create(r, "graphql", autoDtoToAutoCreate(dto))

\* a caller that builds the create record itself, as the unit test does
createDirect(r) ==
    \E rec \in AutoCreates : create(r, "service", rec)

\* the transaction of create: tx.auto.create
create_tx(r) ==
    /\ req[r].pc = "create_tx"
    /\ LET s == autoCreateStmt(auto, nextId, req[r].rec)
       IN  IF s.err # "none"
           THEN /\ req' = [req EXCEPT ![r] =
                       DoneCreate(req[r].via, req[r].rec, <<>>,
                                  req[r].dbCalls + 1, s.err)]
                /\ UNCHANGED <<auto, nextId>>
           ELSE /\ nextId < FirstId + MaxAutos
                /\ auto' = s.tbl
                /\ nextId' = nextId + 1
                /\ req' = [req EXCEPT ![r] =
                       [req[r] EXCEPT !.pc = "create_mail", !.id = <<nextId>>,
                                      !.dbCalls = req[r].dbCalls + 1]]
    /\ UNCHANGED <<autoFile, mails>>

\* #sendmail after the transaction, then the id is returned
create_mail(r) ==
    /\ req[r].pc = "create_mail"
    /\ mails' = mails \cup {req[r].id[1]}
    /\ req' = [req EXCEPT ![r] =
           DoneCreate(req[r].via, req[r].rec, req[r].id, req[r].dbCalls, "ok")]
    /\ UNCHANGED <<auto, autoFile, nextId>>

\* what MailService.sendmail does when the mail cannot be delivered: it
\* keeps the failure to itself, or it throws
MailFailures == {"swallowed", "thrown"}

\* a create that takes the row back when the mail fails
create_mail_failed_rollback(r) ==
    /\ req[r].pc = "create_mail"
    /\ \E failure \in MailFailures :
          req' = [req EXCEPT ![r] =
              DoneCreate(req[r].via, req[r].rec, req[r].id, req[r].dbCalls,
                         "MailError")]
    /\ auto' = [i \in DOMAIN auto \ {req[r].id[1]} |-> auto[i]]
    /\ UNCHANGED <<autoFile, nextId, mails>>

\* #sendmail after the transaction when the mail cannot be delivered: no
\* mail goes out; create returns the id, or fails with the error of
\* sendmail
create_mail_failed(r) ==
    /\ req[r].pc = "create_mail"
    /\ \E failure \in MailFailures :
          req' = [req EXCEPT ![r] =
              DoneCreate(req[r].via, req[r].rec, req[r].id, req[r].dbCalls,
                         IF failure = "thrown" THEN "MailError" ELSE "ok")]
    /\ UNCHANGED <<auto, autoFile, nextId, mails>>

\* ---------------------------------------------------------------- update
\* update without the assignment auto.version = { increment: 1 }
withClientVersion(rec) == rec

\* auto.version = { increment: 1 }: whatever version the record carried is gone
withIncrement(rec) == [rec EXCEPT !.version = Increment(1)]

\* AutoWriteService.update up to the end of #validateUpdate;
\* id is <<>> for undefined and <<n>> for the number n
update(r, id, rec, version) ==
    /\ req[r].pc = "idle"
    /\ req' = [req EXCEPT ![r] =
           IF id = <<>>
           THEN Done("update", id, version, 0, "NotFound", <<>>)
           ELSE LET v == validateUpdate(auto, id[1], version)
                IN  IF v.result # "ok"
                    THEN Done("update", id, version, v.dbCalls, v.result, <<>>)
                    ELSE [Idle EXCEPT !.pc = "update_tx", !.op = "update",
                                      !.id = id, !.token = version,
                                      !.rec = withIncrement(rec),
                                      !.seen = v.seen, !.dbCalls = v.dbCalls]]
    /\ UNCHANGED <<auto, autoFile, nextId, mails>>

updateCall(r) ==
    \E id \in {<<>>} \cup {<<i>> : i \in Ids}, rec \in AutoUpdates,
       version \in Tokens :
        update(r, id, rec, version)

\* the transaction of update with the version checked again inside it
update_tx_checked(r) ==
    /\ req[r].pc = "update_tx"
    /\ LET id == req[r].id[1]
           stale == id \in DOMAIN auto /\ auto[id].version # req[r].seen
           s == autoUpdateStmt(auto, id, req[r].rec)
       IN  IF stale \/ s.err # "none"
           THEN /\ req' = [req EXCEPT ![r] =
                       Done("update", req[r].id, req[r].token,
                            req[r].dbCalls + 1,
                            IF stale THEN "VersionOutdated" ELSE s.err, <<>>)]
                /\ UNCHANGED auto
           ELSE /\ VersionWindow(s.tbl[id].version)
                /\ auto' = s.tbl
                /\ req' = [req EXCEPT ![r] =
                       [Done("update", req[r].id, req[r].token,
                             req[r].dbCalls + 1, "ok", <<s.tbl[id].version>>)
                           EXCEPT !.seen = req[r].seen]]
    /\ UNCHANGED <<autoFile, nextId, mails>>

\* the transaction of update: tx.auto.update, then the new version is returned
update_tx(r) ==
    /\ req[r].pc = "update_tx"
    /\ LET id == req[r].id[1]
           s == autoUpdateStmt(auto, id, req[r].rec)
       IN  IF s.err # "none"
           THEN /\ req' = [req EXCEPT ![r] =
                       Done("update", req[r].id, req[r].token,
                            req[r].dbCalls + 1, s.err, <<>>)]
                /\ UNCHANGED auto
           ELSE /\ VersionWindow(s.tbl[id].version)
                /\ auto' = s.tbl
                /\ req' = [req EXCEPT ![r] =
                       [Done("update", req[r].id, req[r].token,
                             req[r].dbCalls + 1, "ok", <<s.tbl[id].version>>)
                           EXCEPT !.seen = req[r].seen]]
    /\ UNCHANGED <<autoFile, nextId, mails>>

\* ---------------------------------------------------------------- delete
\* another transaction has deleted the file rows of this auto and has not
\* committed yet: it holds their row locks, a writer of these rows waits
fileLocked(r, autoId) ==
    \E q \in Reqs \ {r} :
        /\ req[q].pc = "addFile_create"
        /\ req[q].id = <<autoId>>
        /\ req[q].deleted > 0

\* AutoWriteService.delete up to the findUnique
delete(r, id) ==
    /\ req[r].pc = "idle"
    /\ req' = [req EXCEPT ![r] =
           IF id \notin DOMAIN auto
           THEN Done("delete", <<id>>, <<>>, 1, "ok", <<FALSE>>)
           ELSE [Idle EXCEPT !.pc = "delete_tx", !.op = "delete",
                             !.id = <<id>>, !.dbCalls = 1]]
    /\ UNCHANGED <<auto, autoFile, nextId, mails>>

deleteCall(r) == \E id \in Ids : delete(r, id)

\* the transaction of delete: tx.auto.delete, the files go with the row
delete_tx(r) ==
    /\ req[r].pc = "delete_tx"
    /\ ~fileLocked(r, req[r].id[1])
    /\ LET id == req[r].id[1]
           s == autoDeleteStmt(auto, id)
       IN  IF s.err # "none"
           THEN /\ req' = [req EXCEPT ![r] =
                       Done("delete", req[r].id, <<>>, 2, s.err, <<>>)]
                /\ UNCHANGED <<auto, autoFile>>
           ELSE /\ auto' = s.tbl
                /\ autoFile' = cascadeFiles(autoFile, id)
                /\ req' = [req EXCEPT ![r] =
                       Done("delete", req[r].id, <<>>, 2, "ok", <<TRUE>>)]
    /\ UNCHANGED <<nextId, mails>>

\* --------------------------------------------------------------- addFile
\* addFile without the check that the auto exists
addFile_noFind(r, autoId, filename) ==
    /\ req[r].pc = "idle"
    /\ req' = [req EXCEPT ![r] =
           [Idle EXCEPT !.pc = "addFile_deleteMany", !.op = "addFile",
                        !.id = <<autoId>>, !.file = filename, !.dbCalls = 1]]
    /\ UNCHANGED <<auto, autoFile, nextId, mails>>

\* addFile that counts the upload as a change of the auto
addFile_touchesAuto(r, autoId, filename) ==
    /\ req[r].pc = "idle"
    /\ req' = [req EXCEPT ![r] =
           IF autoId \notin DOMAIN auto
           THEN [Done("addFile", <<autoId>>, <<>>, 1, "NotFound", <<>>)
                    EXCEPT !.file = filename]
           ELSE [Idle EXCEPT !.pc = "addFile_deleteMany", !.op = "addFile",
                             !.id = <<autoId>>, !.file = filename,
                             !.dbCalls = 1]]
    /\ auto' = IF autoId \in DOMAIN auto /\ auto[autoId].version < MaxVersion
               THEN [auto EXCEPT ![autoId].version = @ + 1]
               ELSE auto
    /\ UNCHANGED <<autoFile, nextId, mails>>

\* AutoWriteService.addFile: the transaction begins, tx.auto.findUnique;
\* NotFoundException rolls the (empty) transaction back
addFile(r, autoId, filename) ==
    /\ req[r].pc = "idle"
    /\ req' = [req EXCEPT ![r] =
           IF autoId \notin DOMAIN auto
           THEN [Done("addFile", <<autoId>>, <<>>, 1, "NotFound", <<>>)
                    EXCEPT !.file = filename]
           ELSE [Idle EXCEPT !.pc = "addFile_deleteMany", !.op = "addFile",
                             !.id = <<autoId>>, !.file = filename,
                             !.dbCalls = 1]]
    /\ UNCHANGED <<auto, autoFile, nextId, mails>>

\* tx.autoFile.deleteMany: the rows are gone for this transaction only, the
\* others see them until the commit. When another transaction holds the
\* locks of the rows, the statement waits for them.
addFile_deleteMany(r) ==
    /\ req[r].pc = "addFile_deleteMany"
    /\ req' = [req EXCEPT ![r] =
           IF fileLocked(r, req[r].id[1])
           THEN [req[r] EXCEPT !.pc = "addFile_deleteMany_wait"]
           ELSE [req[r] EXCEPT
                    !.pc = "addFile_create",
                    !.deleted = autoFileDeleteMany(autoFile, req[r].id[1]).count,
                    !.dbCalls = 2]]
    /\ UNCHANGED <<auto, autoFile, nextId, mails>>

\* the waiting deleteMany goes on when the locks are released: the rows it
\* waited for are deleted, the row committed meanwhile is not in its snapshot
addFile_deleteMany_wait(r) ==
    /\ req[r].pc = "addFile_deleteMany_wait"
    /\ ~fileLocked(r, req[r].id[1])
    /\ req' = [req EXCEPT ![r] =
           [req[r] EXCEPT !.pc = "addFile_create", !.deleted = 0,
                          !.dbCalls = 2]]
    /\ UNCHANGED <<auto, autoFile, nextId, mails>>

\* tx.autoFile.create and the commit; an error of the statement rolls the
\* transaction back: the deleted rows stay
addFile_create(r) ==
    /\ req[r].pc = "addFile_create"
    /\ ~fileLocked(r, req[r].id[1])
    /\ LET id == req[r].id[1]
           mine == IF req[r].deleted > 0
                   THEN autoFileDeleteMany(autoFile, id).files
                   ELSE autoFile
           s == autoFileCreateStmt(auto, mine, id, req[r].file)
       IN  IF s.err # "none"
           THEN /\ req' = [req EXCEPT ![r] =
                       [Done("addFile", req[r].id, <<>>, 3, s.err, <<>>)
                           EXCEPT !.file = req[r].file,
                                  !.deleted = req[r].deleted]]
                /\ UNCHANGED autoFile
           ELSE /\ autoFile' = s.files
                /\ req' = [req EXCEPT ![r] =
                       [Done("addFile", req[r].id, <<>>, 3, "ok",
                             <<req[r].file>>)
                           EXCEPT !.file = req[r].file,
                                  !.deleted = req[r].deleted]]
    /\ UNCHANGED <<auto, nextId, mails>>

addFileCall(r) == \E autoId \in Ids, filename \in Filenames : addFile(r, autoId, filename)

\* ------------------------------------------------------------------ read
\* a call of AutoService.findById by a controller or resolver
findByIdCall(r) ==
    /\ req[r].pc = "idle"
    /\ \E id \in Ids :
          LET a == findById(auto, id)
          IN  req' = [req EXCEPT ![r] =
                  Done("findById", <<id>>, <<>>, 1, a.result,
                       IF a.result = "ok" THEN <<a.row>> ELSE <<>>)]
    /\ UNCHANGED <<auto, autoFile, nextId, mails>>

\* AutoService.find up to its first await: the checks of the search
\* parameters and findMany, in one of the orders the store may use
find(r, sp, pageable) ==
    /\ req[r].pc = "idle"
    /\ \E order \in Orders(auto) :
          LET a == find_findMany(auto, sp, pageable, order)
          IN  req' = [req EXCEPT ![r] =
                  IF a.result # "ok"
                  THEN [Done("find", <<>>, <<>>, a.dbCalls, a.result, <<>>)
                            EXCEPT !.sp = sp, !.pageable = pageable]
                  ELSE [Idle EXCEPT !.pc = "find_count", !.op = "find",
                                    !.sp = sp, !.pageable = pageable,
                                    !.autos = a.autos, !.dbCalls = a.dbCalls]]
    /\ UNCHANGED <<auto, autoFile, nextId, mails>>

\* find and #findAll after findMany: this.count(), then #createSlice
find_count(r) ==
    /\ req[r].pc = "find_count"
    /\ LET totalElements == count(auto)
       IN  req' = [req EXCEPT ![r] =
               [Done("find", <<>>, <<>>, req[r].dbCalls + 1, "ok",
                     <<createSlice(req[r].autos, totalElements)>>)
                    EXCEPT !.sp = req[r].sp, !.pageable = req[r].pageable]]
    /\ UNCHANGED <<auto, autoFile, nextId, mails>>

\* AutoService.findFileByAutoId: autoFile.findUnique by autoId; undefined
\* when the auto has no file
findFileByAutoId(r, autoId) ==
    /\ req[r].pc = "idle"
    /\ req' = [req EXCEPT ![r] =
           Done("findFileByAutoId", <<autoId>>, <<>>, 1, "ok", autoFile[autoId])]
    /\ UNCHANGED <<auto, autoFile, nextId, mails>>

findFileByAutoIdCall(r) == \E autoId \in Ids : findFileByAutoId(r, autoId)

\* a call of AutoService.count by the controller: auto.count()
countCall(r) ==
    /\ req[r].pc = "idle"
    /\ req' = [req EXCEPT ![r] =
           Done("count", <<>>, <<>>, 1, "ok", <<count(auto)>>)]
    /\ UNCHANGED <<auto, autoFile, nextId, mails>>

\* the caller has its answer: the slot is free again
return(r) ==
    /\ req[r].pc = "done"
    /\ req' = [req EXCEPT ![r] = Idle]
    /\ UNCHANGED <<auto, autoFile, nextId, mails>>

\* ------------------------------------------------------------------- REST
\* the decimal digits of a number >= 0, as String(n) gives them
DigitChar(d) ==
    CASE d = 0 -> "0" [] d = 1 -> "1" [] d = 2 -> "2" [] d = 3 -> "3"
      [] d = 4 -> "4" [] d = 5 -> "5" [] d = 6 -> "6" [] d = 7 -> "7"
      [] d = 8 -> "8" [] d = 9 -> "9"

RECURSIVE numberToString(_)
numberToString(n) ==
    IF n < 10 THEN <<DigitChar(n)>>
    ELSE Append(numberToString(n \div 10), DigitChar(n % 10))

\* an ETag that is the bare number
toETag_unquoted(version) == numberToString(version)

\* `"${version}"`: the version between double quotes
toETag(version) == <<DQ>> \o numberToString(version) \o <<DQ>>

\* HttpStatus
OK == 200
NO_CONTENT == 204
NOT_MODIFIED == 304
BAD_REQUEST == 400
NOT_FOUND == 404
NOT_ACCEPTABLE == 406
PRECONDITION_REQUIRED == 428

\* AutoController.getById: GET /rest/:id. accepts is the outcome of
\* req.accepts(['json', 'html']), version the header If-None-Match, <<>>
\* when the request has none
getById(r, id, accepts, version) ==
    /\ req[r].pc = "idle"
    /\ LET a == findById(auto, id)
           sent == [Idle EXCEPT !.pc = "done", !.op = "getById",
                                !.id = <<id>>, !.header = version,
                                !.accepts = accepts]
       IN  req' = [req EXCEPT ![r] =
               IF ~accepts
               THEN [sent EXCEPT !.result = "ok",
                                 !.res = Response(NOT_ACCEPTABLE, <<>>, <<>>)]
               ELSE IF a.result # "ok"
               THEN [sent EXCEPT !.dbCalls = 1, !.result = a.result,
                                 !.res = Response(NOT_FOUND, <<>>, <<>>)]
               ELSE IF version = <<toETag(a.row.version)>>
               THEN [sent EXCEPT !.dbCalls = 1, !.result = "ok",
                                 !.res = Response(NOT_MODIFIED, <<>>, <<>>)]
               ELSE [sent EXCEPT !.dbCalls = 1, !.result = "ok",
                                 !.res = Response(OK,
                                                  <<toETag(a.row.version)>>,
                                                  <<a.row>>)]]
    /\ UNCHANGED <<auto, autoFile, nextId, mails>>

\* DecimalMin.validate: value.isGreaterThan(minValue)
DecimalMin(value, minValue) == value > minValue

\* DecimalMax.validate: value.isLessThan(maxValue)
DecimalMax(value, maxValue) == value < maxValue

\* ValidationPipe on AutoDtoOhneRef: the constraints of preis (in cents) and
\* rabatt
validateDto(dto) ==
    /\ DecimalMin(dto.preis, 0)
    /\ DecimalMin(dto.rabatt, 0)
    /\ DecimalMax(dto.rabatt, 100)

\* AutoWriteController.post behind the ValidationPipe: POST /rest
post(r, dto) ==
    IF ~validateDto(dto)
    THEN /\ req[r].pc = "idle"
         /\ req' = [req EXCEPT ![r] =
                [DoneCreate("rest", autoDtoToAutoCreateInput(dto), <<>>, 0,
                            "BadRequest")
                    EXCEPT !.res = Response(BAD_REQUEST, <<>>, <<>>)]]
         /\ UNCHANGED <<auto, autoFile, nextId, mails>>
    ELSE create(r, "rest", autoDtoToAutoCreateInput(dto))

\* a put that takes every request for one with the header If-Match
ifMatchMissing_never(version) == FALSE

\* version === undefined
ifMatchMissing(version) == version = <<>>

\* the string a header value is used as: "undefined" when there is none
String(version) ==
    IF version = <<>> THEN <<"u", "n", "d", "e", "f", "i", "n", "e", "d">>
    ELSE version[1]

\* the status of the response to an exception of the service
PRECONDITION_FAILED == 412
errorStatus(result) ==
    IF result = "NotFound" THEN NOT_FOUND ELSE PRECONDITION_FAILED

\* AutoWriteController.put behind the ValidationPipe, up to the end of
\* #validateUpdate: PUT /rest/:id. version is the header If-Match, <<>> when
\* the request has none
put(r, id, dto, version) ==
    /\ req[r].pc = "idle"
    /\ LET rec == autoDtoToAutoUpdate(dto)
           sent == [Idle EXCEPT !.pc = "done", !.op = "put", !.id = <<id>>,
                                !.header = version, !.rec = rec]
       IN  req' = [req EXCEPT ![r] =
               IF ~validateDto(dto)
               THEN [sent EXCEPT !.result = "BadRequest",
                                 !.res = Response(BAD_REQUEST, <<>>, <<>>)]
               ELSE IF ifMatchMissing(version)
               THEN [sent EXCEPT !.result = "PreconditionRequired",
                                 !.res = Response(PRECONDITION_REQUIRED,
                                                  <<>>, <<>>)]
               ELSE LET v == validateUpdate(auto, id, String(version))
                    IN  IF v.result # "ok"
                        THEN [sent EXCEPT
                                 !.dbCalls = v.dbCalls, !.result = v.result,
                                 !.res = Response(errorStatus(v.result),
                                                  <<>>, <<>>)]
                        ELSE [sent EXCEPT
                                 !.pc = "put_tx", !.rec = withIncrement(rec),
                                 !.seen = v.seen, !.dbCalls = v.dbCalls]]
    /\ UNCHANGED <<auto, autoFile, nextId, mails>>

\* the transaction of the update of put, then the response with the ETag
put_tx(r) ==
    /\ req[r].pc = "put_tx"
    /\ LET id == req[r].id[1]
           s == autoUpdateStmt(auto, id, req[r].rec)
       IN  IF s.err # "none"
           THEN /\ req' = [req EXCEPT ![r] =
                       [req[r] EXCEPT !.pc = "done",
                                      !.dbCalls = req[r].dbCalls + 1,
                                      !.result = s.err]]
                /\ UNCHANGED auto
           ELSE /\ VersionWindow(s.tbl[id].version)
                /\ auto' = s.tbl
                /\ req' = [req EXCEPT ![r] =
                       [req[r] EXCEPT
                           !.pc = "done", !.dbCalls = req[r].dbCalls + 1,
                           !.result = "ok", !.ret = <<s.tbl[id].version>>,
                           !.res = Response(NO_CONTENT,
                                            <<toETag(s.tbl[id].version)>>,
                                            <<>>)]]
    /\ UNCHANGED <<autoFile, nextId, mails>>

\* ------------------------------------------------------------------ specs
\* a request arrives: the call runs up to its first await on the store
call(r) ==
    \/ createRest(r)
    \/ createGraphQL(r)
    \/ createDirect(r)
    \/ updateCall(r)
    \/ deleteCall(r)
    \/ addFileCall(r)
    \/ findByIdCall(r)

\* a call in flight goes on after an await, or its caller takes the answer
step(r) ==
    \/ create_tx(r)
    \/ create_mail(r)
    \/ update_tx(r)
    \/ delete_tx(r)
    \/ addFile_deleteMany(r)
    \/ addFile_create(r)
    \/ return(r)

\* requests are handled concurrently: any interleaving of their steps
\* a statement that waited for the row locks of another transaction goes on
resume(r) == addFile_deleteMany_wait(r)

Next == \E r \in Reqs : call(r) \/ step(r) \/ resume(r)

Spec == Init /\ [][Next]_vars

\* one call at a time: a request arrives only when every slot is idle
AllIdle == \A r \in Reqs : req[r].pc = "idle"

SeqNext == \E r \in Reqs : (AllIdle /\ call(r)) \/ step(r)

SeqSpec == Init /\ [][SeqNext]_vars

\* the autos of the searches: they differ in every column the search looks at
SearchDTOs ==
    {autoRecord(0, [fgnr |-> "1-0001-6", art |-> "COUPE", preis |-> 10000,
                    rabatt |-> 5, lieferbar |-> TRUE, datum |-> 20250210,
                    schlagwoerter |-> {"SPORT"}], "BMW"),
     autoRecord(0, [fgnr |-> "1-0002-6", art |-> "LIMO", preis |-> 20050,
                    rabatt |-> 0, lieferbar |-> FALSE, datum |-> 20250301,
                    schlagwoerter |-> {}], "Audi"),
     autoRecord(0, [fgnr |-> "1-0002-6", art |-> UNDEF, preis |-> 10000,
                    rabatt |-> 5, lieferbar |-> TRUE, datum |-> NullDate,
                    schlagwoerter |-> {"SPORT", "KOMFORT"}], "BMW")}

\* the properties of the searches
SearchProperties ==
    {{},
     {<<"fgnr", Str(Chars("1-"))>>},
     {<<"fgnr", Str(Chars("1-0001-6"))>>},
     {<<"fgnr", Str(Chars("9"))>>},
     {<<"art", Str(Chars("COUPE"))>>},
     {<<"art", Str(Chars("SUV"))>>},
     {<<"modell", Str(Chars("bm"))>>},
     {<<"modell", Str(Chars("zz"))>>},
     {<<"preis", Str(Chars("150"))>>},
     {<<"preis", Str(Chars("abc"))>>},
     {<<"rabatt", Str(Chars("5"))>>},
     {<<"rabatt", Str(Chars("abc"))>>},
     {<<"lieferbar", Str(Chars("TRUE"))>>},
     {<<"lieferbar", Str(Chars("yes"))>>},
     {<<"lieferbar", Bool(FALSE)>>},
     {<<"datum", Str(Chars("2025-03-01"))>>},
     {<<"schlagwort", Str(Chars("sport"))>>},
     {<<"schlagwort", Str(Chars("  "))>>},
     {<<"art", Str(Chars("COUPE"))>>, <<"lieferbar", Str(Chars("TRUE"))>>},
     {<<"modell", Str(Chars("bm"))>>, <<"schlagwort", Str(Chars("sport"))>>},
     {<<"preis", Str(Chars("abc"))>>, <<"art", Str(Chars("COUPE"))>>},
     {<<"rabatt", Str(Chars("abc"))>>, <<"fgnr", Str(Chars("1-0002-6"))>>},
     {<<"javascript", Str(Chars("abc"))>>},
     {<<"javascript", Str(Chars("abc"))>>, <<"fgnr", Str(Chars("1-"))>>},
     {<<"art", Str(Chars("SUV"))>>, <<"fgnr", Str(Chars("1-"))>>},
     {<<"art", Str(Chars("LIMO"))>>, <<"javascript", Str(Chars("abc"))>>}}

\* what a caller passes as search parameters: undefined, or an object
Searches ==
    {[given |-> FALSE, f |-> Suchparameter({})]}
    \cup {[given |-> TRUE, f |-> Suchparameter(props)] :
            props \in SearchProperties}

Pageables ==
    {[number |-> n, size |-> z] : n \in 0..MaxPageNumber, z \in 1..MaxPageSize}

\* a call of AutoService.find by a controller or resolver
findCall(r) ==
    \E sp \in Searches, pageable \in Pageables : find(r, sp, pageable)

\* REST POST of one of the autos of the searches
createSearched(r) ==
    \E dto \in SearchDTOs : create(r, "rest", autoDtoToAutoCreateInput(dto))

\* create records of a caller of the service that leaves out schlagwoerter
UntaggedCreates ==
    {autoRecord(Set(0),
                [dto EXCEPT !.art = orNull(@), !.schlagwoerter = NullArray],
                dto.modell) : dto \in SearchDTOs}

\* a caller that builds the create record itself, without schlagwoerter
createUntagged(r) ==
    \E rec \in UntaggedCreates : create(r, "service", rec)

\* searches over stores that creates and deletes have filled, one call at a
\* time
FindNext ==
    \E r \in Reqs :
        \/ AllIdle /\ createSearched(r)
        \/ AllIdle /\ createUntagged(r)
        \/ AllIdle /\ findByIdCall(r)
        \/ AllIdle /\ deleteCall(r)
        \/ AllIdle /\ findCall(r)
        \/ create_tx(r)
        \/ create_mail(r)
        \/ delete_tx(r)
        \/ find_count(r)
        \/ return(r)

FindSpec == Init /\ [][FindNext]_vars

\* uploads of files with different names, concurrent with creates and deletes
addFileUpload(r) ==
    \E autoId \in Ids, filename \in UploadFilenames : addFile(r, autoId, filename)

FileNext ==
    \E r \in Reqs :
        \/ createRest(r)
        \/ deleteCall(r)
        \/ addFileUpload(r)
        \/ create_tx(r)
        \/ create_mail(r)
        \/ delete_tx(r)
        \/ addFile_deleteMany(r)
        \/ addFile_deleteMany_wait(r)
        \/ addFile_create(r)
        \/ return(r)

FileSpec == Init /\ [][FileNext]_vars

\* the searches of the concurrent reads: none, a filter that matches, a
\* filter with a property that is no search parameter
ReadSearches ==
    {NoSearch,
     [given |-> TRUE, f |-> Suchparameter({<<"lieferbar", Bool(TRUE)>>})],
     [given |-> TRUE, f |-> Suchparameter({<<"javascript", Bool(TRUE)>>})]}

ReadPageables == {[number |-> 0, size |-> 1], [number |-> 0, size |-> MaxPageSize]}

findRead(r) ==
    \E sp \in ReadSearches, pageable \in ReadPageables : find(r, sp, pageable)

\* reads and uploads, concurrent with the creates and deletes of other
\* requests
ReadNext ==
    \E r \in Reqs :
        \/ createRest(r)
        \/ deleteCall(r)
        \/ addFileCall(r)
        \/ findByIdCall(r)
        \/ findFileByAutoIdCall(r)
        \/ countCall(r)
        \/ findRead(r)
        \/ create_tx(r)
        \/ create_mail(r)
        \/ delete_tx(r)
        \/ addFile_deleteMany(r)
        \/ addFile_deleteMany_wait(r)
        \/ addFile_create(r)
        \/ find_count(r)
        \/ return(r)

ReadSpec == Init /\ [][ReadNext]_vars

\* create records of a caller of the service for autos that have been
\* updated as often as three digits can count
HighCreates ==
    {autoRecord(Set(MaxTokenVersion), [DefaultAuto EXCEPT !.fgnr = f],
                DefaultModell) : f \in Fgnrs}

createHigh(r) == \E rec \in HighCreates : create(r, "service", rec)

\* tokens around the last three-digit version: "999", "1000", and two whose
\* first three digits are followed by a quote and more
HighTokens ==
    { <<DQ, "9", "9", DQ>>,
      <<DQ, "9", "9", "9", DQ>>,
      <<DQ, "1", "0", "0", "0", DQ>>,
      <<DQ, "9", "9", "9", DQ, "9", DQ>>,
      <<DQ, "1", "0", "0", DQ, "0", DQ>> }

\* a call of AutoWriteService.update with one of these tokens
updateHigh(r) ==
    \E id \in Ids, version \in HighTokens :
        update(r, <<id>>,
               autoUpdateRecord(Absent, [DefaultAuto EXCEPT !.fgnr = "1-0001-6"]),
               version)

\* the versions a GraphQL client may put into its AutoUpdateDTO
UpdateVersions == {MaxTokenVersion, MaxTokenVersion + 1}

\* AutoMutationResolver.update: the version of the DTO between quotes
versionStr(version) == <<DQ>> \o numberToString(version) \o <<DQ>>

updateGraphQL(r) ==
    \E id \in Ids, version \in UpdateVersions :
        update(r, <<id>>,
               autoUpdateDtoToAutoUpdate([DefaultAuto EXCEPT !.fgnr = "1-0002-6"]),
               versionStr(version))

\* concurrent updates of autos whose version is about to need a fourth digit
VersionNext ==
    \E r \in Reqs :
        \/ createHigh(r)
        \/ updateHigh(r)
        \/ updateGraphQL(r)
        \/ deleteCall(r)
        \/ create_tx(r)
        \/ create_mail(r)
        \/ update_tx(r)
        \/ delete_tx(r)
        \/ return(r)

VersionSpec == Init /\ [][VersionNext]_vars

\* creates whose mail may fail, concurrent with deletes
MailNext ==
    \E r \in Reqs :
        \/ createRest(r)
        \/ deleteCall(r)
        \/ create_tx(r)
        \/ create_mail(r)
        \/ create_mail_failed(r)
        \/ delete_tx(r)
        \/ return(r)

MailSpec == Init /\ [][MailNext]_vars

\* the values of If-None-Match: none, quoted versions, a bare number, a weak
\* validator
IfNoneMatchHeaders ==
    {<<>>, <<toETag(0)>>, <<toETag(1)>>, <<toETag(2)>>, <<(<<"1">>)>>,
     <<(<<"W", "/", DQ, "0", DQ>>)>>}

\* the prices (in cents) and discounts of the bodies of POST and PUT: at,
\* next to and beyond the bounds
PreisRabatt ==
    {<<0 - 1, 5>>, <<0, 5>>, <<1, 1>>, <<4499000, 99>>, <<4499000, 0 - 1>>,
     <<4499000, 0>>, <<4499000, 100>>, <<4499000, 101>>}

RestDTOs ==
    {autoRecord(0, [DefaultAuto EXCEPT !.fgnr = f, !.preis = pr[1],
                                       !.rabatt = pr[2]], DefaultModell) :
        f \in Fgnrs, pr \in PreisRabatt}

\* the values of If-Match: none, or a token
IfMatchHeaders == {<<>>} \cup {<<t>> : t \in Tokens}

postCall(r) == \E dto \in RestDTOs : post(r, dto)

putCall(r) ==
    \E id \in Ids, dto \in RestDTOs, version \in IfMatchHeaders :
        put(r, id, dto, version)

getByIdCall(r) ==
    \E id \in Ids, accepts \in BOOLEAN, version \in IfNoneMatchHeaders :
        getById(r, id, accepts, version)

\* the REST interface, one request at a time
RestNext ==
    \E r \in Reqs :
        \/ AllIdle /\ postCall(r)
        \/ AllIdle /\ putCall(r)
        \/ AllIdle /\ getByIdCall(r)
        \/ create_tx(r)
        \/ create_mail(r)
        \/ put_tx(r)
        \/ return(r)

RestSpec == Init /\ [][RestNext]_vars

\* ----------------------------------------------------------------- claims
\* what the specification calls a version token: a double-quote, one to
\* three digits, a double-quote, and nothing else
WellFormedToken(s) ==
    /\ Len(s) \in 3..5
    /\ s[1] = DQ
    /\ s[Len(s)] = DQ
    /\ \A i \in 2..(Len(s) - 1) : s[i] \in Digits

\* the number a well-formed token carries
TokenValue(s) == DecVal(s, 2, Len(s) - 1)

\* the token starts with a double-quote, one to three digits, a double-quote
HasVersionPrefix(s) ==
    /\ Len(s) >= 1
    /\ s[1] = DQ
    /\ LET k == DigitRun(s, 2)
       IN  k \in 1..3 /\ Len(s) >= k + 2 /\ s[k + 2] = DQ

\* no other entity holds this chassis number
FgnrFreeFor(id, fgnr) == \A i \in DOMAIN auto \ {id} : auto[i].fgnr # fgnr

\* this step is the arrival of a call of op in slot r
Arrives(r, op) == req[r].pc = "idle" /\ req'[r].op = op

\* this step is the transaction of the update in slot r
UpdateCommits(r) == req[r].pc = "update_tx" /\ req'[r].pc = "done"

\* an update of an existing entity with a well-formed token >= the stored
\* version passes #validateUpdate
C1_ValidationPasses(r) ==
    ( /\ Arrives(r, "update")
      /\ req'[r].id # <<>>
      /\ req'[r].id[1] \in DOMAIN auto
      /\ WellFormedToken(req'[r].token)
      /\ TokenValue(req'[r].token) >= auto[req'[r].id[1]].version )
    => req'[r].pc = "update_tx"

\* C1 as stated: for every existing entity with stored version v and every
\* well-formed token with a value >= v (also a larger one), update succeeds,
\* the stored version becomes v+1 and v+1 is returned.
C1_Original ==
    [][\A r \in Reqs :
          /\ C1_ValidationPasses(r)
          /\ UpdateCommits(r) =>
                LET id == req[r].id[1]
                    v == req[r].seen
                IN  /\ req'[r].result = "ok"
                    /\ req'[r].ret = <<v + 1>>
                    /\ id \in DOMAIN auto'
                    /\ auto'[id].version = v + 1]_vars

\* C1 amended: for every existing entity with stored version v and every
\* well-formed token with a value >= v, update passes the validation; it
\* then succeeds, the stored version becomes v+1 and v+1 is returned, unless
\* the chassis number of the update is stored on another entity: then the
\* store rejects the write and nothing changes.
C1_UpdateSucceeds ==
    [][\A r \in Reqs :
          /\ C1_ValidationPasses(r)
          /\ UpdateCommits(r) =>
                LET id == req[r].id[1]
                    v == req[r].seen
                IN  IF FgnrFreeFor(id, req[r].rec.fgnr)
                    THEN /\ req'[r].result = "ok"
                         /\ req'[r].ret = <<v + 1>>
                         /\ id \in DOMAIN auto'
                         /\ auto'[id].version = v + 1
                    ELSE /\ req'[r].result = "UniqueConstraint"
                         /\ auto' = auto]_vars

\* an update with a token value larger than the stored version was accepted
C1_Witness ==
    \E r \in Reqs :
        /\ req[r].pc = "done" /\ req[r].op = "update" /\ req[r].result = "ok"
        /\ WellFormedToken(req[r].token)
        /\ TokenValue(req[r].token) >= req[r].ret[1]
        /\ auto[req[r].id[1]].version = req[r].ret[1]

\* C2: for every existing entity with stored version v and every well-formed
\* token with a value < v, update fails with VersionOutdated and the stored
\* version and attributes stay as they are.
C2_OutdatedRejected ==
    [][\A r \in Reqs :
          ( /\ Arrives(r, "update")
            /\ req'[r].id # <<>>
            /\ req'[r].id[1] \in DOMAIN auto
            /\ WellFormedToken(req'[r].token)
            /\ TokenValue(req'[r].token) < auto[req'[r].id[1]].version )
          => /\ req'[r].pc = "done"
             /\ req'[r].result = "VersionOutdated"
             /\ auto' = auto]_vars

\* an update with the token of an older version was rejected
C2_Witness ==
    \E r \in Reqs :
        /\ req[r].pc = "done" /\ req[r].op = "update"
        /\ req[r].result = "VersionOutdated"
        /\ req[r].id[1] \in DOMAIN auto
        /\ WellFormedToken(req[r].token)
        /\ TokenValue(req[r].token) < auto[req[r].id[1]].version

\* C3 as stated: update accepts a token only if the whole token is a
\* double-quote, one to three digits and a double-quote; every other token
\* fails with VersionInvalid.
C3_OnlyWellFormedAccepted ==
    \A r \in Reqs :
        ( /\ req[r].op = "update"
          /\ req[r].id # <<>>
          /\ ~WellFormedToken(req[r].token) )
        => req[r].pc = "done" /\ req[r].result = "VersionInvalid"

\* C4: a token that does not match the version pattern makes update fail
\* with VersionInvalid before any store access: no read, no write, and for
\* a defined but unknown id VersionInvalid, not NotFound.
C4_InvalidBeforeStore ==
    [][\A r \in Reqs :
          ( /\ Arrives(r, "update")
            /\ req'[r].id # <<>>
            /\ ~HasVersionPrefix(req'[r].token) )
          => /\ req'[r].pc = "done"
             /\ req'[r].result = "VersionInvalid"
             /\ req'[r].dbCalls = 0
             /\ UNCHANGED <<auto, autoFile, nextId, mails>>]_vars

\* an update of an unknown id with a malformed token ended VersionInvalid
C4_Witness ==
    \E r \in Reqs :
        /\ req[r].pc = "done" /\ req[r].op = "update"
        /\ req[r].id # <<>>
        /\ req[r].id[1] \notin DOMAIN auto
        /\ ~HasVersionPrefix(req[r].token)
        /\ req[r].result = "VersionInvalid"
        /\ req[r].dbCalls = 0

\* C5: two concurrent updates of one entity that both present the current
\* version v both pass the validation and both commit: the second commit is
\* not rejected as outdated, the stored version is then v+2 and the
\* attributes are those of the update that committed last.
C5_LostUpdate ==
    [][\A r1, r2 \in Reqs :
          ( /\ r1 # r2
            /\ req[r1].pc = "done" /\ req[r1].op = "update"
            /\ req[r1].result = "ok"
            /\ req[r2].pc = "update_tx" /\ req[r2].id = req[r1].id
            /\ WellFormedToken(req[r1].token)
            /\ WellFormedToken(req[r2].token)
            /\ TokenValue(req[r1].token) = req[r2].seen
            /\ TokenValue(req[r2].token) = req[r2].seen
            /\ req[r1].seen = req[r2].seen
            /\ req[r1].ret = <<req[r2].seen + 1>>
            /\ req[r2].id[1] \in DOMAIN auto
            /\ auto[req[r2].id[1]].version = req[r2].seen + 1
            /\ FgnrFreeFor(req[r2].id[1], req[r2].rec.fgnr)
            /\ req'[r2].pc = "done" )
          => /\ req'[r2].result = "ok"
             /\ req'[r2].ret = <<req[r2].seen + 2>>
             /\ auto'[req[r2].id[1]].version = req[r2].seen + 2
             /\ auto'[req[r2].id[1]].fgnr = req[r2].rec.fgnr]_vars

\* both updates presented version v, both committed, the version is v+2
C5_Witness ==
    \E r1, r2 \in Reqs :
        /\ r1 # r2
        /\ req[r1].pc = "done" /\ req[r1].op = "update" /\ req[r1].result = "ok"
        /\ req[r2].pc = "done" /\ req[r2].op = "update" /\ req[r2].result = "ok"
        /\ req[r1].id = req[r2].id
        /\ WellFormedToken(req[r1].token) /\ WellFormedToken(req[r2].token)
        /\ TokenValue(req[r1].token) = req[r1].seen
        /\ TokenValue(req[r2].token) = req[r1].seen
        /\ req[r2].seen = req[r1].seen
        /\ req[r1].ret = <<req[r1].seen + 1>>
        /\ req[r2].ret = <<req[r1].seen + 2>>
        /\ req[r1].id[1] \in DOMAIN auto
        /\ auto[req[r1].id[1]].version = req[r1].seen + 2

\* C6: the stored version of an existing entity never decreases; it changes
\* only in the transaction of a successful update, and then by exactly +1,
\* whatever version the update record of the caller carried.
C6_VersionMonotone ==
    [][/\ \A id \in DOMAIN auto \cap DOMAIN auto' :
             \/ auto'[id].version = auto[id].version
             \/ /\ auto'[id].version = auto[id].version + 1
                /\ \E r \in Reqs :
                      /\ UpdateCommits(r)
                      /\ req[r].id = <<id>>
                      /\ req'[r].result = "ok"
       /\ \A r \in Reqs :
             (UpdateCommits(r) /\ req'[r].result = "ok")
             => /\ req[r].id[1] \in DOMAIN auto
                /\ auto'[req[r].id[1]].version
                      = auto[req[r].id[1]].version + 1]_vars

\* an update has committed and the entity carries the version it returned
C6_Witness ==
    \E r \in Reqs :
        /\ req[r].pc = "done" /\ req[r].op = "update" /\ req[r].result = "ok"
        /\ req[r].id[1] \in DOMAIN auto
        /\ auto[req[r].id[1]].version = req[r].ret[1]
        /\ req[r].ret[1] >= 1

\* C7: create with a chassis number that is already stored fails with
\* FgnrExists, creates no second row, leaves the rows as they are and sends
\* no notification.
C7_CreateConflict ==
    [][\A r \in Reqs :
          ( /\ Arrives(r, "create")
            /\ \E i \in DOMAIN auto : auto[i].fgnr = req'[r].rec.fgnr )
          => /\ req'[r].pc = "done"
             /\ req'[r].result = "FgnrExists"
             /\ UNCHANGED <<auto, autoFile, nextId, mails>>]_vars

\* a create was rejected with FgnrExists and that fgnr is stored once
C7_Witness ==
    \E r \in Reqs :
        /\ req[r].pc = "done" /\ req[r].op = "create"
        /\ req[r].result = "FgnrExists"
        /\ Cardinality({i \in DOMAIN auto : auto[i].fgnr = req[r].rec.fgnr}) = 1

\* C8: no two stored entities have the same chassis number, in every
\* interleaving of creates and updates.
C8_FgnrUnique ==
    \A i, j \in DOMAIN auto : i # j => auto[i].fgnr # auto[j].fgnr

\* two entities are stored, a concurrent create and an update that asked
\* for a stored chassis number were both turned down by the store
C8_Witness ==
    /\ Cardinality(DOMAIN auto) = 2
    /\ \E r1, r2 \in Reqs :
          /\ req[r1].pc = "done" /\ req[r1].op = "create"
          /\ req[r1].result = "UniqueConstraint"
          /\ req[r2].pc = "done" /\ req[r2].op = "update"
          /\ req[r2].result = "UniqueConstraint"

\* this step is the successful insert of the create in slot r
CreateCommits(r) == req[r].pc = "create_tx" /\ req'[r].pc = "create_mail"

C10_Delete ==
    [][/\ \A r \in Reqs :
             /\ (Arrives(r, "delete") /\ req'[r].id[1] \in DOMAIN auto)
                   => req'[r].pc = "delete_tx"
             /\ (req[r].pc = "delete_tx" /\ req'[r].pc = "done")
                   => /\ req'[r].result = "ok"
                      /\ req'[r].ret = <<TRUE>>
                      /\ req[r].id[1] \notin DOMAIN auto'
             /\ (Arrives(r, "delete") /\ req'[r].id[1] \notin DOMAIN auto)
                   => /\ req'[r].pc = "done"
                      /\ req'[r].result = "ok"
                      /\ req'[r].ret = <<FALSE>>
                      /\ UNCHANGED <<auto, autoFile, nextId, mails>>
             /\ (Arrives(r, "findById") /\ req'[r].id[1] \notin DOMAIN auto)
                   => req'[r].result = "NotFound"
       /\ \A id \in Ids :
             (id < nextId /\ id \notin DOMAIN auto) => id \notin DOMAIN auto']_vars

\* a delete returned true and its entity is gone
C10_Witness ==
    \E r \in Reqs :
        /\ req[r].pc = "done" /\ req[r].op = "delete" /\ req[r].result = "ok"
        /\ req[r].ret = <<TRUE>>
        /\ req[r].id[1] \notin DOMAIN auto
        /\ req[r].id[1] < nextId

\* C11 as stated: in every interleaving of delete calls on one existing id no
\* call fails with an error: each returns true or false, and two calls on
\* that id never both return true.
C11_ConcurrentDeletes ==
    /\ \A r \in Reqs :
          (req[r].pc = "done" /\ req[r].op = "delete")
          => /\ req[r].result = "ok"
             /\ req[r].ret \in {<<TRUE>>, <<FALSE>>}
    /\ \A r1, r2 \in Reqs :
          ( /\ r1 # r2
            /\ req[r1].pc = "done" /\ req[r1].op = "delete"
            /\ req[r2].pc = "done" /\ req[r2].op = "delete"
            /\ req[r1].id = req[r2].id )
          => ~(req[r1].ret = <<TRUE>> /\ req[r2].ret = <<TRUE>>)

\* C12: an id goes nonexistent -> active -> deleted and deleted is terminal:
\* an id becomes active only as the fresh id of a create, and an id that was
\* assigned and has no row never gets a row again, also not by an update
\* that passed its validation before the delete committed.
C12_DeletedIsTerminal ==
    [][\A id \in Ids :
          /\ (id < nextId /\ id \notin DOMAIN auto) => id \notin DOMAIN auto'
          /\ (id \notin DOMAIN auto /\ id \in DOMAIN auto')
                => /\ id = nextId
                   /\ nextId' = nextId + 1
                   /\ \E r \in Reqs : CreateCommits(r) /\ req'[r].id = <<id>>]_vars

\* an update passed its validation, the entity was deleted before the
\* update's transaction, and the id has no row
C12_Witness ==
    \E r \in Reqs :
        /\ req[r].pc = "done" /\ req[r].op = "update"
        /\ req[r].result = "RecordNotFound"
        /\ req[r].id[1] < nextId
        /\ req[r].id[1] \notin DOMAIN auto

\* this step is the commit of the addFile transaction in slot r
AddFileCommits(r) ==
    /\ req[r].pc = "addFile_create"
    /\ req'[r].pc = "done"
    /\ req'[r].result = "ok"

\* C13: every entity has at most one attached file; a successful addFile
\* leaves exactly one file on its entity, the one of this call, with or
\* without a previous file and also when addFile calls interleave; the files
\* of an entity change only by such a commit or go with the deleted entity.
C13_OneFile ==
    [][/\ \A i \in Ids : Len(autoFile[i]) <= 1 /\ Len(autoFile'[i]) <= 1
       /\ \A r \in Reqs :
             AddFileCommits(r) => autoFile'[req[r].id[1]] = <<req[r].file>>
       /\ \A i \in Ids :
             autoFile'[i] # autoFile[i]
             => \/ \E r \in Reqs : AddFileCommits(r) /\ req[r].id = <<i>>
                \/ /\ autoFile'[i] = <<>>
                   /\ i \in DOMAIN auto /\ i \notin DOMAIN auto']_vars

\* an addFile replaced the file of a committed call by its own, and the
\* other call's file was a different one
C13_Witness ==
    \E r1, r2 \in Reqs :
        /\ r1 # r2
        /\ req[r1].pc = "done" /\ req[r1].op = "addFile" /\ req[r1].result = "ok"
        /\ req[r2].pc = "done" /\ req[r2].op = "addFile" /\ req[r2].result = "ok"
        /\ req[r1].id = req[r2].id
        /\ req[r1].file # req[r2].file
        /\ req[r2].deleted = 1
        /\ autoFile[req[r2].id[1]] = <<req[r2].file>>

\* C14: addFile for an id with no entity fails with NotFound and the store
\* is unchanged: no file row is inserted and none is deleted.
C14_AddFileNotFound ==
    [][\A r \in Reqs :
          (Arrives(r, "addFile") /\ req'[r].id[1] \notin DOMAIN auto)
          => /\ req'[r].pc = "done"
             /\ req'[r].result = "NotFound"
             /\ UNCHANGED <<auto, autoFile, nextId, mails>>]_vars

\* an addFile for an id without entity ended NotFound, another entity has
\* its file
C14_Witness ==
    \E r \in Reqs :
        /\ req[r].pc = "done" /\ req[r].op = "addFile"
        /\ req[r].result = "NotFound"
        /\ req[r].id[1] \notin DOMAIN auto
        /\ \E i \in Ids : Len(autoFile[i]) = 1

\* a call of find is at r, back from the store or finished
FindAt(r) == req[r].op = "find" /\ req[r].pc \in {"find_count", "done"}

\* the search parameters of the call at r name a property outside the
\* whitelist or a category that is none of COUPE, LIMO, KOMBI
InvalidSearch(r) ==
    LET f == req[r].sp.f
    IN  /\ req[r].sp.given
        /\ \/ \E k \in keys(f) :
                  k \notin {"fgnr", "art", "preis", "rabatt", "lieferbar",
                            "datum", "schlagwort", "modell"}
           \/ /\ "art" \in keys(f)
              /\ f["art"].s \notin {Chars("COUPE"), Chars("LIMO"), Chars("KOMBI")}

\* C15: find with a non-empty filter that has a key outside the whitelist, or
\* a category that is not COUPE, LIMO or KOMBI, fails with NotFound and has
\* not queried the store, whatever the other keys are.
C15_InvalidSearchNotFound ==
    \A r \in Reqs :
        (FindAt(r) /\ InvalidSearch(r)) =>
            /\ req[r].pc = "done"
            /\ req[r].result = "NotFound"
            /\ req[r].dbCalls = 0

\* an invalid key beside a valid one that rows of the store satisfy
C15_Witness ==
    \E r \in Reqs :
        /\ FindAt(r) /\ InvalidSearch(r)
        /\ req[r].result = "NotFound"
        /\ keys(req[r].sp.f) = {"javascript", "fgnr"}
        /\ \E i \in DOMAIN auto :
              startsWith(Chars(auto[i].fgnr), req[r].sp.f["fgnr"].s)

\* an entity with an empty array where the column schlagwoerter is NULL
Normal(e) ==
    [e EXCEPT !.schlagwoerter = IF @ = {"null"} THEN {} ELSE @]

\* the content a call of find has got from the store
Content(r) ==
    IF req[r].pc = "find_count" THEN req[r].autos
    ELSE IF req[r].ret = <<>> THEN <<>>
    ELSE req[r].ret[1].content

\* a call of find with a filter of whitelisted keys and a valid category
ValidSearch(r) ==
    /\ req[r].sp.given
    /\ keys(req[r].sp.f) # {}
    /\ ~InvalidSearch(r)

\* t occurs in s from position n on
OccursAt(s, t, n) == n + Len(t) - 1 <= Len(s) /\ SubSeq(s, n, n + Len(t) - 1) = t

\* the row satisfies every predicate the filter f supplies: a price or a
\* discount that is no number and a blank tag supply none
Satisfies(row, f) ==
    /\ "modell" \in keys(f) =>
          \E n \in 1..(Len(Chars(row.modell)) + 1) :
              OccursAt(toLowerCase(Chars(row.modell)),
                       toLowerCase(f["modell"].s), n)
    /\ "fgnr" \in keys(f) => OccursAt(Chars(row.fgnr), f["fgnr"].s, 1)
    /\ ("preis" \in keys(f) /\ ~parseFloat(f["preis"].s).nan) =>
          row.preis <= parseFloat(f["preis"].s).val
    /\ ("rabatt" \in keys(f) /\ ~parseInt(f["rabatt"].s).nan) =>
          row.rabatt >= parseInt(f["rabatt"].s).val
    /\ "art" \in keys(f) => row.art # NULL /\ Chars(row.art) = f["art"].s
    /\ "lieferbar" \in keys(f) =>
          (row.lieferbar <=>
              IF f["lieferbar"].t = "boolean" THEN f["lieferbar"].b
              ELSE toLowerCase(f["lieferbar"].s) = <<"t", "r", "u", "e">>)
    /\ "datum" \in keys(f) =>
          row.datum # NullDate /\ row.datum >= newDate(f["datum"].s)
    /\ ("schlagwort" \in keys(f) /\ trim(f["schlagwort"].s) # <<>>) =>
          \E t \in row.schlagwoerter : Chars(t) = toUpperCase(f["schlagwort"].s)

\* the ids of the rows that satisfy the filter f
Matching(f) == {i \in DOMAIN auto : Satisfies(auto[i], f)}

\* the length of the window of size rows at offset number * size of n rows
WindowLen(n, pageable) ==
    LET offset == pageable.number * pageable.size
    IN  IF n <= offset THEN 0
        ELSE IF n - offset < pageable.size THEN n - offset
        ELSE pageable.size

C17_TotalIsMatching ==
    \A r \in Reqs :
        (FindAt(r) /\ ValidSearch(r) /\ req[r].pc = "done"
            /\ req[r].result = "ok") =>
            req[r].ret[1].totalElements =
                Cardinality(Matching(req[r].sp.f))

\* a call of find without search parameters or with an empty record
NoFilter(r) == ~req[r].sp.given \/ keys(req[r].sp.f) = {}

\* C18: find with an absent filter and find with an empty filter record give
\* the outcome of the unfiltered paginated listing: the window of the page
\* over all stored rows with totalElements the number of all stored rows,
\* and NotFound exactly when that window is empty.
C18_NoFilterIsListing ==
    \A r \in Reqs :
        (FindAt(r) /\ NoFilter(r)) =>
            LET content == Content(r)
                len == WindowLen(Cardinality(DOMAIN auto), req[r].pageable)
            IN  /\ Len(content) = len
                /\ \A n \in 1..Len(content) :
                      /\ content[n].id \in DOMAIN auto
                      /\ Normal(content[n]) =
                            Normal(autoEntity(content[n].id,
                                              auto[content[n].id]))
                /\ \A n, m \in 1..Len(content) :
                      n # m => content[n].id # content[m].id
                /\ req[r].pc = "done" =>
                      IF len = 0
                      THEN req[r].result = "NotFound"
                      ELSE /\ req[r].result = "ok"
                           /\ req[r].ret[1].totalElements =
                                 Cardinality(DOMAIN auto)

\* the second page of size one of two stored rows, asked for without search
\* parameters
C18_Witness ==
    \E r \in Reqs :
        /\ FindAt(r) /\ ~req[r].sp.given
        /\ req[r].pc = "done" /\ req[r].result = "ok"
        /\ req[r].pageable = [number |-> 1, size |-> 1]
        /\ Cardinality(DOMAIN auto) = 2
        /\ req[r].ret[1].totalElements = 2

\* the number of rows the page of the call at r holds
PageRows(r) ==
    WindowLen(IF NoFilter(r) THEN Cardinality(DOMAIN auto)
              ELSE Cardinality(Matching(req[r].sp.f)),
              req[r].pageable)

\* C19: find never returns a slice with empty content: when the page holds
\* no row, because no row matches or the page lies past the last row, the
\* call fails with NotFound, for filtered and for unfiltered searches.
C19_NoEmptySlice ==
    \A r \in Reqs :
        FindAt(r) =>
            /\ (req[r].pc = "find_count" \/ req[r].result = "ok") =>
                  Len(Content(r)) > 0
            /\ ((NoFilter(r) \/ ValidSearch(r)) /\ PageRows(r) = 0) =>
                  req[r].pc = "done" /\ req[r].result = "NotFound"

\* a filter that rows of the store match, and a page past the last of them
C19_Witness ==
    \E r \in Reqs :
        /\ FindAt(r) /\ ValidSearch(r)
        /\ Matching(req[r].sp.f) # {}
        /\ req[r].pageable.number = 1
        /\ PageRows(r) = 0
        /\ req[r].result = "NotFound"
        /\ req[r].dbCalls = 1

\* C20: findById returns the stored entity with the requested id exactly
\* when a row with that id exists and fails with NotFound otherwise; it never
\* returns an entity with another id and never changes the store.
C20_FindById ==
    [][\A r \in Reqs :
          Arrives(r, "findById") =>
              LET id == req'[r].id[1]
              IN  /\ UNCHANGED <<auto, autoFile, nextId, mails>>
                  /\ req'[r].pc = "done"
                  /\ IF id \in DOMAIN auto
                     THEN /\ req'[r].result = "ok"
                          /\ Len(req'[r].ret) = 1
                          /\ req'[r].ret[1].id = id
                          /\ req'[r].ret[1] =
                                Normal(autoEntity(id, auto[id]))
                     ELSE /\ req'[r].result = "NotFound"
                          /\ req'[r].ret = <<>>]_vars

\* the second of two stored entities was asked for and came back
C20_Witness ==
    \E r \in Reqs :
        /\ req[r].pc = "done" /\ req[r].op = "findById"
        /\ req[r].result = "ok"
        /\ Cardinality(DOMAIN auto) = 2
        /\ \E i \in DOMAIN auto : i < req[r].id[1]
        /\ req[r].ret[1].id = req[r].id[1]

\* the entities a finished read at r has returned
Returned(r) ==
    IF req[r].pc # "done" \/ req[r].result # "ok" THEN {}
    ELSE IF req[r].op = "findById" THEN {req[r].ret[1]}
    ELSE IF req[r].op = "find"
    THEN {req[r].ret[1].content[n] : n \in 1..Len(req[r].ret[1].content)}
    ELSE {}

\* C21: every entity that findById, a filtered find or an unfiltered find
\* returns has an array of tags, never null: the stored tags, and the empty
\* array when the stored value is null.
C21_TagsNeverNull ==
    \A r \in Reqs :
        \A e \in Returned(r) :
            /\ e.schlagwoerter # {"null"}
            /\ e.id \in DOMAIN auto =>
                  e.schlagwoerter =
                      IF auto[e.id].schlagwoerter = {"null"} THEN {}
                      ELSE auto[e.id].schlagwoerter

\* a filtered find, an unfiltered find or findById has returned an entity
\* whose stored tags are null
C21_Witness ==
    \E r \in Reqs :
        \E e \in Returned(r) :
            /\ e.id \in DOMAIN auto
            /\ auto[e.id].schlagwoerter = {"null"}
            /\ e.schlagwoerter = {}
            /\ req[r].op = "find" /\ ValidSearch(r)

\* the version v between double quotes
Quoted(v) ==
    CASE v = 0 -> <<DQ, "0", DQ>>
      [] v = 1 -> <<DQ, "1", DQ>>
      [] v = 2 -> <<DQ, "2", DQ>>
      [] v = 3 -> <<DQ, "3", DQ>>

\* the answer of GET /rest/{id} at r for an existing entity is 304 without
\* body exactly when If-None-Match is the quoted stored version, and else 200
\* with the entity and the ETag of the stored version
GetAnswer(r) ==
    LET id == req[r].id[1]
        v == auto[id].version
        res == req[r].res
    IN  IF req[r].header = <<Quoted(v)>>
        THEN res.status = 304 /\ res.body = <<>>
        ELSE /\ res.status = 200
             /\ res.etag = <<Quoted(v)>>
             /\ Len(res.body) = 1
             /\ res.body[1].id = id
             /\ res.body[1].version = v

\* a GET /rest/{id} for an existing entity is answered at r
GetOfExisting(r) ==
    /\ req[r].pc = "done" /\ req[r].op = "getById"
    /\ req[r].id[1] \in DOMAIN auto

PutWithoutIfMatch(r) ==
    req[r].pc = "idle" /\ req'[r].op = "put" /\ req'[r].header = <<>>

\* the PUT that arrives at r is answered 428, the update service is not
\* called and the store is as before
Answered428(r) ==
    /\ req'[r].pc = "done"
    /\ req'[r].res.status = 428
    /\ req'[r].dbCalls = 0
    /\ UNCHANGED <<auto, autoFile, nextId>>

\* this step commits the update of the PUT at r: the response has the ETag
\* of the quoted new version
PutSuccessHasETag(r) ==
    (req[r].pc = "put_tx" /\ req'[r].result = "ok") =>
        /\ auto'[req[r].id[1]].version = auto[req[r].id[1]].version + 1
        /\ req'[r].res.etag = <<Quoted(auto'[req[r].id[1]].version)>>

\* C23 as stated: every PUT /rest/{id} without an If-Match header answers
\* 428 and never calls the update service; a successful PUT answers with
\* the ETag of the quoted new version.
C23_PutWithoutIfMatch ==
    [][\A r \in Reqs :
          /\ PutWithoutIfMatch(r) => Answered428(r)
          /\ PutSuccessHasETag(r)]_vars

\* the body of the PUT at r passes the validation of preis and rabatt
BodyAccepted(r) ==
    /\ req'[r].rec.preis > 0
    /\ req'[r].rec.rabatt > 0
    /\ req'[r].rec.rabatt < 100

\* C23: a PUT /rest/{id} without an If-Match header whose body passes the
\* validation answers 428 and never calls the update service, so the stored
\* entity and its version are unchanged; a PUT without the header whose
\* body fails the validation is answered 400, also without a call of the
\* service; a successful PUT answers with the ETag of the quoted new version.
C23_ValidPutWithoutIfMatch ==
    [][\A r \in Reqs :
          /\ PutWithoutIfMatch(r) =>
                IF BodyAccepted(r) THEN Answered428(r)
                ELSE /\ req'[r].pc = "done"
                     /\ req'[r].res.status = 400
                     /\ req'[r].dbCalls = 0
                     /\ UNCHANGED <<auto, autoFile, nextId>>
          /\ PutSuccessHasETag(r)]_vars

\* a PUT without If-Match for an existing entity was answered 428
C23_Witness ==
    \E r \in Reqs :
        /\ req[r].pc = "done" /\ req[r].op = "put"
        /\ req[r].header = <<>>
        /\ req[r].id[1] \in DOMAIN auto
        /\ req[r].rec.preis > 0
        /\ req[r].res.status = 428

\* a POST /rest or a PUT /rest/{id} with If-Match is answered at r
WriteAnswered(r) ==
    /\ req[r].pc = "done"
    /\ \/ req[r].op = "create" /\ req[r].via = "rest"
       \/ req[r].op = "put" /\ req[r].header # <<>>

\* C26: the input validation of create and update accepts a price exactly
\* when it is >= 0 and a discount exactly when it lies in [0, 100]: the
\* bounds 0 and 100 are accepted and every value outside is rejected before
\* any store access.
C26_ValidationBounds ==
    \A r \in Reqs :
        WriteAnswered(r) =>
            IF req[r].rec.preis >= 0 /\ req[r].rec.rabatt \in 0..100
            THEN req[r].result # "BadRequest"
            ELSE req[r].result = "BadRequest" /\ req[r].dbCalls = 0

\* C24: a creation mail is sent only after the create transaction of that
\* entity has committed, and a failure of the mail does not remove or roll
\* back the committed entity.
C24_MailAfterCommit ==
    [][\A r \in Reqs :
          /\ (req[r] # req'[r] /\ mails' # mails) =>
                /\ req[r].pc = "create_mail"
                /\ req[r].id[1] < nextId
                /\ mails' = mails \cup {req[r].id[1]}
          /\ (req[r].pc = "create_mail" /\ req'[r].pc = "done") =>
                auto' = auto /\ nextId' = nextId]_vars

\* the mail of a committed create has failed, the create has failed with
\* it, and the entity is stored
C24_Witness ==
    \E r \in Reqs :
        /\ req[r].pc = "done" /\ req[r].op = "create"
        /\ req[r].result = "MailError"
        /\ req[r].id[1] \in DOMAIN auto
        /\ req[r].id[1] \notin mails

\* the filter of the call at r has a preis or rabatt that starts like no
\* number
NoNumberKeys(r) ==
    {k \in keys(req[r].sp.f) \cap {"preis", "rabatt"} :
        LET v == req[r].sp.f[k].s
        IN  v = <<>> \/ v[1] \notin Digits \cup {"+", "-", "."}}

\* the filter f without the key k
Without(f, k) == [f EXCEPT ![k] = [t |-> "undefined", s |-> <<>>, b |-> FALSE]]

\* C25: a preis or rabatt filter value that does not parse as a number drops
\* only that predicate and raises no error: build gives the predicate of the
\* filter without that key, and find applies all remaining predicates.
C25_UnparsableNumberDropped ==
    \A r \in Reqs :
        (FindAt(r) /\ ValidSearch(r)) =>
            \A k \in NoNumberKeys(r) :
                LET rest == Without(req[r].sp.f, k)
                IN  /\ build(req[r].sp.f) = build(rest)
                    /\ req[r].pc = "done" =>
                          req[r].result \in {"ok", "NotFound"}
                    /\ Len(Content(r)) =
                          WindowLen(Cardinality(Matching(rest)),
                                    req[r].pageable)
                    /\ \A n \in 1..Len(Content(r)) :
                          Content(r)[n].id \in Matching(rest)

\* a preis that is no number beside a category that leaves out a stored row
C25_Witness ==
    \E r \in Reqs :
        /\ FindAt(r) /\ ValidSearch(r)
        /\ NoNumberKeys(r) = {"preis"}
        /\ keys(req[r].sp.f) = {"preis", "art"}
        /\ req[r].pc = "done" /\ req[r].result = "ok"
        /\ Cardinality(DOMAIN auto) = 2
        /\ Len(Content(r)) = 1

\* C27: addFile and the reads (findById, findFileByAutoId, find, count)
\* leave every auto as it is, its version, its attributes and whether it
\* exists: no step of such a call, successful or not, changes the table auto.
FrameOps == {"addFile", "findById", "findFileByAutoId", "find", "count"}

StepOf(r) == req'[r] # req[r] /\ (req[r].op \in FrameOps \/ req'[r].op \in FrameOps)

C27_ReadsLeaveAutos ==
    [][\A r \in Reqs : StepOf(r) => auto' = auto]_vars

\* an upload has succeeded for an existing auto of a non-zero store while a
\* read of the other request has come back
C27_Witness ==
    \E r, q \in Reqs :
        /\ req[r].pc = "done" /\ req[r].op = "addFile" /\ req[r].result = "ok"
        /\ req[r].id[1] \in DOMAIN auto
        /\ req[q].pc = "done"
        /\ req[q].op \in {"findById", "findFileByAutoId", "find", "count"}

\* C28 as stated: once the stored version of an auto is 1000 or more, every
\* update call for it ends with VersionInvalid or VersionOutdated and the
\* version never changes again.
FourDigits(id) == id \in DOMAIN auto /\ auto[id].version > MaxTokenVersion

UpdateEnds(r) ==
    req[r].pc # "done" /\ req'[r].pc = "done" /\ req'[r].op = "update"

C28_NeverUpdatedAgain ==
    [][/\ \A id \in Ids :
            FourDigits(id) /\ id \in DOMAIN auto'
                => auto'[id].version = auto[id].version
       /\ \A r \in Reqs :
            UpdateEnds(r) /\ req'[r].id # <<>> /\ FourDigits(req'[r].id[1])
                => req'[r].result \in {"VersionInvalid", "VersionOutdated"}]_vars

\* C28: an update call that arrives when the stored version of its auto is
\* 1000 or more ends at once with VersionInvalid or VersionOutdated and
\* changes nothing; an accepted token is read as 999 at most.
C28_UpdateAtFourDigitsRejected ==
    [][\A r \in Reqs :
          Arrives(r, "update") /\ req'[r].id # <<>> /\ FourDigits(req'[r].id[1])
              => /\ req'[r].pc = "done"
                 /\ req'[r].result \in {"VersionInvalid", "VersionOutdated"}
                 /\ auto' = auto]_vars

\* an update with the token "999" followed by more characters has been
\* turned down as outdated for an auto that an update has brought to 1000
C28_Witness ==
    \E r \in Reqs :
        /\ req[r].pc = "done" /\ req[r].op = "update"
        /\ req[r].id # <<>> /\ req[r].id[1] \in DOMAIN auto
        /\ auto[req[r].id[1]].version = MaxTokenVersion + 1
        /\ req[r].token = <<DQ, "9", "9", "9", DQ, "9", DQ>>
        /\ req[r].result = "VersionOutdated"

\* C29: a create that is turned down while its fgnr is stored is turned down
\* with FgnrExists (Conflict), also when the insert of a concurrent create
\* with the same fgnr has come between its count and its own insert.
CreateRejected(r) ==
    /\ req[r].pc \in {"idle", "create_tx"}
    /\ req'[r].pc = "done" /\ req'[r].op = "create"
    /\ req'[r].result # "ok"

C29_DuplicateIsFgnrExists ==
    [][\A r \in Reqs :
          CreateRejected(r) /\ autoCount(auto, req'[r].rec.fgnr) > 0
              => req'[r].result = "FgnrExists"]_vars

\* C30: in every slice that find returns, totalElements is at least the
\* number of rows of content, also when creates and deletes of other requests
\* commit between findMany and count.
C30_TotalCoversContent ==
    \A r \in Reqs :
        req[r].pc = "done" /\ req[r].op = "find" /\ req[r].result = "ok"
            => req[r].ret[1].totalElements >= Len(req[r].ret[1].content)

====
